---- MODULE Spec2Model ----
(***************************************************************************)
(* RedisIndexManager (src/RedisIndexManager/redis_index_manager_optimized  *)
(* .js): a hash-bucketed secondary index over Redis.  A record is a string *)
(* value under its key plus a membership of the key in the ZSET            *)
(* indexPrefix + first hashChars hex digits of md5(key).                   *)
(*                                                                         *)
(* Strings are JavaScript strings: sequences of UTF-16 code units.  Redis  *)
(* receives them UTF-8 encoded and orders ZSET members of equal score by   *)
(* comparing those bytes; Array.prototype.sort orders by code units.       *)
(* The key universes hold well-formed strings only (no lone surrogate), so *)
(* that encoding and decoding a key gives the key back, and no data key    *)
(* starts with indexPrefix.                                                *)
(***************************************************************************)
EXTENDS Integers, Sequences, FiniteSets, TLC

VARIABLES
  cfg,    \* the manager's fields set by the constructor
  env,    \* the backend and the callers the manager runs with
  kv,     \* Redis string keys: data key -> value (Null when absent)
  zsets,  \* Redis ZSETs: the set of <<bucket key, member>>
  wr,     \* per caller: the add/del call in flight
  ret,    \* per caller: how its last add/del call ended
  rng,    \* an _inferRange call: its arguments and its result
  rd,     \* the scan, count or getDebugStats call in flight
  cl,     \* cleanupData (test_redis_index_manager.js): its locals
  cs,     \* the cache consumer (tendis_cache.test.js): queue, timer, runs
  conn    \* a manager built from a configuration: its client and its calls

vars == <<cfg, env, kv, zsets, wr, ret, rng, rd, cl, cs, conn>>

-----------------------------------------------------------------------------
(* Strings                                                                 *)

Undefined == <<-1>>          \* undefined / null: no string has a unit -1
Null == Undefined

RECURSIVE Pow(_, _)
Pow(b, e) == IF e = 0 THEN 1 ELSE b * Pow(b, e - 1)

IsHighSurrogate(u) == u >= 55296 /\ u <= 56319
IsLowSurrogate(u) == u >= 56320 /\ u <= 57343

\* UTF-8 bytes of one code point
Utf8OfCodePoint(cp) ==
  IF cp < 128 THEN <<cp>>
  ELSE IF cp < 2048 THEN <<192 + (cp \div 64), 128 + (cp % 64)>>
  ELSE IF cp < 65536
    THEN <<224 + (cp \div 4096), 128 + ((cp \div 64) % 64), 128 + (cp % 64)>>
  ELSE <<240 + (cp \div 262144), 128 + ((cp \div 4096) % 64),
         128 + ((cp \div 64) % 64), 128 + (cp % 64)>>

\* UTF-8 bytes of a JS string, as the client writes it to the socket: a
\* surrogate pair is one code point, a lone surrogate becomes U+FFFD
RECURSIVE Utf8(_)
Utf8(s) ==
  IF s = <<>> THEN <<>>
  ELSE IF Len(s) >= 2 /\ IsHighSurrogate(s[1]) /\ IsLowSurrogate(s[2])
    THEN Utf8OfCodePoint(65536 + (s[1] - 55296) * 1024 + (s[2] - 56320))
           \o Utf8(SubSeq(s, 3, Len(s)))
  ELSE IF IsHighSurrogate(s[1]) \/ IsLowSurrogate(s[1])
    THEN Utf8OfCodePoint(65533) \o Utf8(Tail(s))
  ELSE Utf8OfCodePoint(s[1]) \o Utf8(Tail(s))

\* a < b, element by element; a proper prefix is smaller
RECURSIVE SeqLess(_, _)
SeqLess(a, b) ==
  IF b = <<>> THEN FALSE
  ELSE IF a = <<>> THEN TRUE
  ELSE IF a[1] # b[1] THEN a[1] < b[1]
  ELSE SeqLess(Tail(a), Tail(b))

\* memcmp order of Redis on the members' bytes
BytesLess(a, b) == SeqLess(Utf8(a), Utf8(b))
BytesLeq(a, b) == a = b \/ BytesLess(a, b)

\* order of Array.prototype.sort() without comparator: UTF-16 code units
JsLess(a, b) == SeqLess(a, b)

IsPrefix(p, s) == Len(p) <= Len(s) /\ SubSeq(s, 1, Len(p)) = p

-----------------------------------------------------------------------------
(* Key universe, md5                                                       *)

K1 == <<97, 58, 49>>                \* "a:1"
K2 == <<97, 58, 50>>                \* "a:2"
KB == <<98, 58, 49>>                \* "b:1"
KX == <<97, 58, 65374>>             \* "a:" U+FF5E
KY == <<97, 58, 55357, 56832>>      \* "a:" U+1F600 (a surrogate pair)
KZ == <<97, 58, 55360, 56321>>      \* "a:" U+20001 (a surrogate pair)
V1 == <<118, 49>>                   \* "v1"
V2 == <<118, 50>>                   \* "v2"

AllKeys == {K1, K2, KB, KX, KY, KZ}
Values == {V1, V2}

\* crypto.createHash("md5").update(key).digest("hex"), its first two digits
\* (all the code reads), for the keys of the universe
Md5Hex(key) ==
  CASE key = K1 -> <<57, 101>>      \* 9e
    [] key = K2 -> <<54, 48>>       \* 60
    [] key = KB -> <<54, 52>>       \* 64
    [] key = KX -> <<101, 55>>      \* e7
    [] key = KY -> <<101, 100>>     \* ed
    [] key = KZ -> <<55, 99>>       \* 7c

IndexPrefix == <<105, 100, 120, 58>>   \* "idx:"

HexDigit(d) == IF d < 10 THEN 48 + d ELSE 87 + d

\* i.toString(16)
RECURSIVE ToString16(_)
ToString16(i) ==
  IF i < 16 THEN <<HexDigit(i)>>
  ELSE ToString16(i \div 16) \o <<HexDigit(i % 16)>>

\* s.padStart(w, "0")
RECURSIVE PadStart0(_, _)
PadStart0(s, w) == IF Len(s) >= w THEN s ELSE PadStart0(<<48>> \o s, w)

\* the loop gone wrong: i <= maxVal
BucketsOneMore(hashChars) ==
  [i \in 1..(Pow(16, hashChars) + 1) |-> PadStart0(ToString16(i - 1), hashChars)]

\* the constructor's loop: this.buckets
Buckets(hashChars) ==
  [i \in 1..Pow(16, hashChars) |-> PadStart0(ToString16(i - 1), hashChars)]

GetBucketName(suffix) == IndexPrefix \o suffix

\* _getBucketKey gone wrong: one hex digit whatever hashChars is
GetBucketKeyOneDigit(key, hashChars) ==
  GetBucketName(SubSeq(Md5Hex(key), 1, 1))

\* _getBucketKey
GetBucketKey(key, hashChars) ==
  GetBucketName(SubSeq(Md5Hex(key), 1, hashChars))

-----------------------------------------------------------------------------
(* _inferRange and the lexicographic range of Redis                        *)

IsAlnum(u) ==
  (u >= 48 /\ u <= 57) \/ (u >= 65 /\ u <= 90) \/ (u >= 97 /\ u <= 122)

\* the separators gone wrong: "_" is none
IsSeparatorNoUnderscore(u) == u \in {58, 45, 47, 35}

IsSeparator(u) == u \in {95, 58, 45, 47, 35}       \* _ : - / #

\* length of the run [a-zA-Z0-9]* at the start of s
RECURSIVE AlnumRun(_)
AlnumRun(s) ==
  IF s # <<>> /\ IsAlnum(s[1]) THEN 1 + AlnumRun(Tail(s)) ELSE 0

\* startKey.match(/^([a-zA-Z0-9]+)(_|:|-|\/|#)/): match[0], or Undefined
\* when there is no match.  The run is greedy and the unit after it is no
\* alphanumeric, so backtracking to a shorter run never finds a separator.
MatchPrefix(s) ==
  LET n == AlnumRun(s)
  IN  IF n >= 1 /\ Len(s) > n /\ IsSeparator(s[n + 1])
        THEN SubSeq(s, 1, n + 1)
        ELSE Undefined

\* prefix.slice(0, -1) + String.fromCharCode(lastChar.charCodeAt(0) + 1)
NextPrefix(prefix) ==
  SubSeq(prefix, 1, Len(prefix) - 1) \o <<(prefix[Len(prefix)] + 1) % 65536>>

\* !endKey
Falsy(s) == s = Undefined \/ s = <<>>

\* _inferRange gone wrong: the inferred upper bound taken inclusive
InferRangeInclusiveEnd(startKey, endKey) ==
  IF Falsy(endKey)
    THEN IF MatchPrefix(startKey) # Undefined
           THEN [ok |-> TRUE, lexStart |-> <<91>> \o startKey,
                 lexEnd |-> <<91>> \o NextPrefix(MatchPrefix(startKey))]
           ELSE [ok |-> FALSE, lexStart |-> Undefined, lexEnd |-> Undefined]
    ELSE [ok |-> TRUE, lexStart |-> <<91>> \o startKey,
          lexEnd |-> <<91>> \o endKey]

\* _inferRange gone wrong: "+" where nothing can be inferred
InferRangeUnbounded(startKey, endKey) ==
  IF Falsy(endKey)
    THEN IF MatchPrefix(startKey) # Undefined
           THEN [ok |-> TRUE, lexStart |-> <<91>> \o startKey,
                 lexEnd |-> <<40>> \o NextPrefix(MatchPrefix(startKey))]
           ELSE [ok |-> TRUE, lexStart |-> <<91>> \o startKey,
                 lexEnd |-> <<43>>]
    ELSE [ok |-> TRUE, lexStart |-> <<91>> \o startKey,
          lexEnd |-> <<91>> \o endKey]

\* _inferRange: ok is FALSE when it throws
InferRange(startKey, endKey) ==
  IF Falsy(endKey)
    THEN IF MatchPrefix(startKey) # Undefined
           THEN [ok |-> TRUE, lexStart |-> <<91>> \o startKey,
                 lexEnd |-> <<40>> \o NextPrefix(MatchPrefix(startKey))]
           ELSE [ok |-> FALSE, lexStart |-> Undefined, lexEnd |-> Undefined]
    ELSE [ok |-> TRUE, lexStart |-> <<91>> \o startKey,
          lexEnd |-> <<91>> \o endKey]

\* How Redis reads a ZRANGEBYLEX / ZLEXCOUNT bound: "-" and "+" are the
\* infinities, "[" is inclusive, "(" exclusive, anything else is an error
LexItem(item) ==
  IF item = <<45>> THEN [kind |-> "min", s |-> <<>>]
  ELSE IF item = <<43>> THEN [kind |-> "max", s |-> <<>>]
  ELSE IF item # <<>> /\ item # Undefined /\ item[1] = 91
    THEN [kind |-> "incl", s |-> Tail(item)]
  ELSE IF item # <<>> /\ item # Undefined /\ item[1] = 40
    THEN [kind |-> "excl", s |-> Tail(item)]
  ELSE [kind |-> "err", s |-> <<>>]

GteMin(m, lo) ==
  CASE lo.kind = "min" -> TRUE
    [] lo.kind = "max" -> FALSE
    [] lo.kind = "incl" -> BytesLeq(lo.s, m)
    [] lo.kind = "excl" -> BytesLess(lo.s, m)
    [] OTHER -> FALSE

LteMax(m, hi) ==
  CASE hi.kind = "max" -> TRUE
    [] hi.kind = "min" -> FALSE
    [] hi.kind = "incl" -> BytesLeq(m, hi.s)
    [] hi.kind = "excl" -> BytesLess(m, hi.s)
    [] OTHER -> FALSE

\* member m lies in the range the two bounds denote
InLexRange(m, lexStart, lexEnd) ==
  GteMin(m, LexItem(lexStart)) /\ LteMax(m, LexItem(lexEnd))

-----------------------------------------------------------------------------
(* The constructor                                                         *)

\* options.redis: a connected client; isCluster and defineCommand are the
\* two properties of it the constructor and _initLuaScripts read
Clients == [isCluster : BOOLEAN, defineCommand : BOOLEAN]

\* options.hashChars: omitted; an integer n; another falsy value (null, "",
\* NaN, false); another truthy value (1.5, "1", true)
HashCharsArg(kind, n) == [kind |-> kind, n |-> n]

Omitted == HashCharsArg("omitted", 0)

\* no manager: the constructor has not run on options o
NoManager(o) ==
  [called |-> FALSE, ok |-> FALSE, options |-> o, isCluster |-> FALSE,
   hasScript |-> FALSE, hashChars |-> 0, buckets |-> <<>>,
   SCAN_BATCH_SIZE |-> 0, MGET_BATCH_SIZE |-> 0]

\* new RedisIndexManager(options).  "options.x || d" takes the default d for
\* every falsy x: an option left out, and 0 (a batch size of 0 stands for
\* both).  ok is FALSE when the constructor throws.
NewManager(o) ==
  LET a == o.hashChars
      defaulted == a.kind \in {"omitted", "falsy"} \/ (a.kind = "integer" /\ a.n = 0)
      ok == defaulted \/ (a.kind = "integer" /\ (a.n = 1 \/ a.n = 2))
      hashChars == IF defaulted THEN 2 ELSE a.n
  IN  IF ~ok THEN [NoManager(o) EXCEPT !.called = TRUE]
      ELSE [called |-> TRUE,
            ok |-> TRUE,
            options |-> o,
            isCluster |-> o.redis.isCluster,
            hasScript |-> o.redis.defineCommand,
            hashChars |-> hashChars,
            buckets |-> Buckets(hashChars),
            SCAN_BATCH_SIZE |-> IF o.scanBatchSize = 0 THEN 50 ELSE o.scanBatchSize,
            MGET_BATCH_SIZE |-> IF o.mgetBatchSize = 0 THEN 200 ELSE o.mgetBatchSize]

-----------------------------------------------------------------------------
(* The Redis commands the manager sends                                    *)

Cmd(t, keys, arg) == [t |-> t, keys |-> keys, arg |-> arg]

OddIndexes(s) == {j \in 1..Len(s) : j % 2 = 1}

\* SET gone wrong: a value that is there is kept (SET ... NX)
KvAfterKeepsOld(cmd, store) ==
  CASE cmd.t \in {"SET", "addIndex"} /\ store[cmd.keys[1]] = Null ->
         [store EXCEPT ![cmd.keys[1]] = cmd.arg]
    [] cmd.t = "DEL" -> [store EXCEPT ![cmd.keys[1]] = Null]
    [] cmd.t = "mDelIndex" ->
         [k \in DOMAIN store |->
            IF \E j \in {i \in 1..Len(cmd.keys) : i % 2 = 1} : cmd.keys[j] = k
              THEN Null ELSE store[k]]
    [] OTHER -> store

\* the string keys after the server ran cmd; addIndex and mDelIndex are the
\* Lua scripts of _initLuaScripts, run as one indivisible command
KvAfter(cmd, store) ==
  CASE cmd.t = "SET" -> [store EXCEPT ![cmd.keys[1]] = cmd.arg]
    [] cmd.t = "DEL" -> [store EXCEPT ![cmd.keys[1]] = Null]
    [] cmd.t = "addIndex" -> [store EXCEPT ![cmd.keys[1]] = cmd.arg]
    [] cmd.t = "mDelIndex" ->
         [k \in DOMAIN store |->
            IF \E j \in OddIndexes(cmd.keys) : cmd.keys[j] = k
              THEN Null ELSE store[k]]
    [] OTHER -> store

\* the removal gone wrong: the bucket of a removed member is emptied
ZsAfterEmptiesBucket(cmd, zs) ==
  CASE cmd.t = "ZADD" -> zs \cup {<<cmd.keys[1], cmd.arg>>}
    [] cmd.t = "ZREM" -> {p \in zs : p[1] # cmd.keys[1]}
    [] cmd.t = "addIndex" -> zs \cup {<<cmd.keys[2], cmd.keys[1]>>}
    [] cmd.t = "mDelIndex" ->
         {p \in zs : \A j \in OddIndexes(cmd.keys) : cmd.keys[j + 1] # p[1]}
    [] OTHER -> zs

\* the ZSETs after the server ran cmd (every score is 0: a ZSET is the set
\* of its members)
ZsAfter(cmd, zs) ==
  CASE cmd.t = "ZADD" -> zs \cup {<<cmd.keys[1], cmd.arg>>}
    [] cmd.t = "ZREM" -> zs \ {<<cmd.keys[1], cmd.arg>>}
    [] cmd.t = "addIndex" -> zs \cup {<<cmd.keys[2], cmd.keys[1]>>}
    [] cmd.t = "mDelIndex" ->
         zs \ {<<cmd.keys[j + 1], cmd.keys[j]>> : j \in OddIndexes(cmd.keys)}
    [] OTHER -> zs

\* the members of the ZSET at bucketKey (none when the key does not exist)
MembersOf(zs, bucketKey) == {p[2] : p \in {q \in zs : q[1] = bucketKey}}

\* the least string of a non-empty set in the order of the server
MinBytes(S) == CHOOSE x \in S : \A y \in S : BytesLeq(x, y)

\* the strings of S in ascending order of their bytes
RECURSIVE SortBytes(_)
SortBytes(S) ==
  IF S = {} THEN <<>> ELSE <<MinBytes(S)>> \o SortBytes(S \ {MinBytes(S)})

Take(s, n) == SubSeq(s, 1, IF n < Len(s) THEN n ELSE Len(s))

InRangeMembers(zs, bucketKey, lexStart, lexEnd) ==
  {x \in MembersOf(zs, bucketKey) : InLexRange(x, lexStart, lexEnd)}

\* ZRANGEBYLEX gone wrong: the first member of the range is left out
ZRangeByLexSkipFirst(zs, bucketKey, lexStart, lexEnd, count) ==
  LET s == SortBytes(InRangeMembers(zs, bucketKey, lexStart, lexEnd))
  IN  Take(IF s = <<>> THEN s ELSE Tail(s), count)

\* ZRANGEBYLEX bucketKey lexStart lexEnd LIMIT 0 count
ZRangeByLex(zs, bucketKey, lexStart, lexEnd, count) ==
  Take(SortBytes(InRangeMembers(zs, bucketKey, lexStart, lexEnd)), count)

\* ZLEXCOUNT gone wrong: the upper bound itself is not counted
ZLexCountExclusive(zs, bucketKey, lexStart, lexEnd) ==
  Cardinality({x \in InRangeMembers(zs, bucketKey, lexStart, lexEnd) :
                 x # LexItem(lexEnd).s})

\* ZLEXCOUNT bucketKey lexStart lexEnd
ZLexCount(zs, bucketKey, lexStart, lexEnd) ==
  Cardinality(InRangeMembers(zs, bucketKey, lexStart, lexEnd))

-----------------------------------------------------------------------------
(* add and del                                                             *)

BATCH_SIZE == 2   \* del's chunk size; 1000 in the code, scaled to the lists

MaxDelLen == 3    \* longest array passed to del

Callers == {1, 2}

\* no call in flight.  before is the value the (first) key of the call had
\* when it was made (kept to state what a call does to a key that was there);
\* err: a request of the call was answered with an error.
Idle ==
  [op |-> "none", keys |-> <<>>, value |-> Null, i |-> 0, todo |-> <<>>,
   ordered |-> TRUE, warned |-> FALSE, before |-> Null, err |-> FALSE]

\* what the caller of add or del got: nothing yet, "ok" (the promise is
\* fulfilled) or "error" (it is rejected)
NoRet == "none"

\* the request is a call of a script: this.redis[scriptName](...)
IsScript(cmd) == cmd.t \in {"addIndex", "mDelIndex"}

\* _execAtomic gone wrong: the pipeline even when the client has the script
ExecAtomicAlwaysPipeline(m, script, fallback) ==
  [todo |-> fallback, ordered |-> TRUE, warned |-> TRUE]

\* _execAtomic: the script when the client has it, else a warning and the
\* pipeline fallbackFn builds
ExecAtomic(m, script, fallback) ==
  IF m.hasScript
    THEN [todo |-> <<script>>, ordered |-> TRUE, warned |-> FALSE]
    ELSE [todo |-> fallback, ordered |-> TRUE, warned |-> TRUE]

\* add gone wrong: the script is called on a cluster as well
AddRequestsScriptOnCluster(m, key, value) ==
  LET bucketKey == GetBucketKey(key, m.hashChars)
  IN  ExecAtomic(m, Cmd("addIndex", <<key, bucketKey>>, value),
                 <<Cmd("SET", <<key>>, value),
                   Cmd("ZADD", <<bucketKey>>, key)>>)

\* add gone wrong: the value is set and the index is not written
AddRequestsNoIndex(m, key, value) ==
  [todo |-> <<Cmd("SET", <<key>>, value)>>, ordered |-> TRUE, warned |-> FALSE]

\* the requests add(key, value) sends: in cluster mode SET and ZADD at once
\* (Promise.all: the server may run them in either order)
AddRequests(m, key, value) ==
  LET bucketKey == GetBucketKey(key, m.hashChars)
  IN  IF m.isCluster
        THEN [todo |-> <<Cmd("SET", <<key>>, value),
                         Cmd("ZADD", <<bucketKey>>, key)>>,
              ordered |-> FALSE, warned |-> FALSE]
        ELSE ExecAtomic(m, Cmd("addIndex", <<key, bucketKey>>, value),
                        <<Cmd("SET", <<key>>, value),
                          Cmd("ZADD", <<bucketKey>>, key)>>)

\* pipeline.del(key); pipeline.zrem(bucketKey, key) for each key of the chunk
RECURSIVE DelPipeline(_, _)
DelPipeline(m, batchKeys) ==
  IF batchKeys = <<>> THEN <<>>
  ELSE <<Cmd("DEL", <<batchKeys[1]>>, Null),
         Cmd("ZREM", <<GetBucketKey(batchKeys[1], m.hashChars)>>, batchKeys[1])>>
         \o DelPipeline(m, Tail(batchKeys))

\* keysAndBuckets: key, bucketKey, key, bucketKey, ...
RECURSIVE KeysAndBuckets(_, _)
KeysAndBuckets(m, batchKeys) ==
  IF batchKeys = <<>> THEN <<>>
  ELSE <<batchKeys[1], GetBucketKey(batchKeys[1], m.hashChars)>>
         \o KeysAndBuckets(m, Tail(batchKeys))

\* keys.slice(i, i + BATCH_SIZE), i counted from 0
Chunk(keys, i) ==
  SubSeq(keys, i + 1, IF i + BATCH_SIZE < Len(keys) THEN i + BATCH_SIZE ELSE Len(keys))

\* del gone wrong: the values are deleted and the index is not
DelRequestsNoZrem(m, batchKeys) ==
  [todo |-> [j \in 1..Len(batchKeys) |-> Cmd("DEL", <<batchKeys[j]>>, Null)],
   ordered |-> TRUE, warned |-> FALSE]

\* the requests del sends for one chunk
DelRequests(m, batchKeys) ==
  IF m.isCluster
    THEN [todo |-> DelPipeline(m, batchKeys), ordered |-> TRUE, warned |-> FALSE]
    ELSE ExecAtomic(m, Cmd("mDelIndex", KeysAndBuckets(m, batchKeys), Null),
                    DelPipeline(m, batchKeys))

\* add(key, value) up to its await
AddStart(c, key, value) ==
  /\ c \in env.callers
  /\ wr[c].op = "none"
  /\ LET r == AddRequests(cfg, key, value)
     IN  wr' = [wr EXCEPT ![c] =
                  [op |-> "add", keys |-> <<key>>, value |-> value, i |-> 0,
                   todo |-> r.todo, ordered |-> r.ordered, warned |-> r.warned,
                   before |-> kv[key], err |-> FALSE]]
  /\ ret' = [ret EXCEPT ![c] = NoRet]
  /\ UNCHANGED <<cl, cs, conn, cfg, env, kv, zsets, rng, rd>>

\* the server runs one request of caller c: the first of a pipeline, any of
\* those sent independently
ServerExec(c, j) ==
  /\ j \in 1..Len(wr[c].todo)
  /\ wr[c].ordered => j = 1
  /\ kv' = KvAfter(wr[c].todo[j], kv)
  /\ zsets' = ZsAfter(wr[c].todo[j], zsets)
  /\ wr' = [wr EXCEPT ![c].todo =
              SubSeq(wr[c].todo, 1, j - 1) \o SubSeq(wr[c].todo, j + 1, Len(wr[c].todo))]
  /\ UNCHANGED <<cl, cs, conn, cfg, env, ret, rng, rd>>

\* the backend answers one request of caller c with an error and leaves the
\* store as it is.  A script call rejects and the call of the manager ends
\* with it; a command of a pipeline has its error put into the result of
\* exec(), which add and del do not read, and the pipeline goes on; a
\* command sent on its own rejects, and Promise.all with it, while the other
\* command stays in flight.
ServerError(c, j) ==
  /\ env.faulty
  /\ j \in 1..Len(wr[c].todo)
  /\ wr[c].ordered => j = 1
  /\ IF IsScript(wr[c].todo[j])
       THEN /\ wr' = [wr EXCEPT ![c] = Idle]
            /\ ret' = [ret EXCEPT ![c] = "error"]
       ELSE /\ wr' = [wr EXCEPT
                       ![c].todo = SubSeq(wr[c].todo, 1, j - 1)
                                     \o SubSeq(wr[c].todo, j + 1, Len(wr[c].todo)),
                       ![c].err = TRUE]
            /\ ret' = IF wr[c].ordered THEN ret
                      ELSE [ret EXCEPT ![c] = "error"]
  /\ UNCHANGED <<cl, cs, conn, cfg, env, kv, zsets, rng, rd>>

\* add after its await: every reply is in.  Promise.all has rejected when one
\* of the two commands failed; the result of a pipeline is not read.
AddReturn(c) ==
  /\ wr[c].op = "add"
  /\ wr[c].todo = <<>>
  /\ ret' = [ret EXCEPT ![c] = IF wr[c].err /\ ~wr[c].ordered
                                 THEN "error" ELSE "ok"]
  /\ wr' = [wr EXCEPT ![c] = Idle]
  /\ UNCHANGED <<cl, cs, conn, cfg, env, kv, zsets, rng, rd>>

\* the arguments del is called with: a string, an array, or neither
DelArg(isString, isArray, keys) ==
  [isString |-> isString, isArray |-> isArray, keys |-> keys]

\* the normalisation gone wrong: a string is taken for an empty list
DelKeysStringIgnored(a) == IF a.isString THEN <<>> ELSE a.keys

\* if (typeof keys === "string") keys = [keys]
DelKeys(a) == IF a.isString THEN <<a.keys[1]>> ELSE a.keys

\* del(keys) up to its first await, or to its return when there is nothing
\* to delete
DelStart(c, a) ==
  /\ c \in env.callers
  /\ wr[c].op = "none"
  /\ LET keys == DelKeys(a)
     IN  IF (~a.isString /\ ~a.isArray) \/ Len(keys) = 0
           THEN /\ wr' = wr
                /\ ret' = [ret EXCEPT ![c] = "ok"]
           ELSE /\ LET r == DelRequests(cfg, Chunk(keys, 0))
                   IN  wr' = [wr EXCEPT ![c] =
                                [op |-> "del", keys |-> keys, value |-> Null,
                                 i |-> 0, todo |-> r.todo,
                                 ordered |-> r.ordered, warned |-> r.warned,
                                 before |-> kv[keys[1]], err |-> FALSE]]
                /\ ret' = [ret EXCEPT ![c] = NoRet]
  /\ UNCHANGED <<cl, cs, conn, cfg, env, kv, zsets, rng, rd>>

\* del after the await of one chunk: the next chunk, or the return
DelNext(c) ==
  /\ wr[c].op = "del"
  /\ wr[c].todo = <<>>
  /\ LET i == wr[c].i + BATCH_SIZE
     IN  IF i < Len(wr[c].keys)
           THEN /\ LET r == DelRequests(cfg, Chunk(wr[c].keys, i))
                   IN  wr' = [wr EXCEPT ![c].i = i, ![c].todo = r.todo,
                                        ![c].ordered = r.ordered,
                                        ![c].warned = r.warned]
                /\ ret' = ret
           ELSE /\ ret' = [ret EXCEPT ![c] = "ok"]
                /\ wr' = [wr EXCEPT ![c] = Idle]
  /\ UNCHANGED <<cl, cs, conn, cfg, env, kv, zsets, rng, rd>>

\* a caller with no call in flight stops calling, while no call is in
\* flight at all: what the others do from here on, they do alone
Retire(c) ==
  /\ c \in env.callers
  /\ env.callers # {c}
  /\ \A d \in Callers : wr[d].op = "none"
  /\ env' = [env EXCEPT !.callers = env.callers \ {c}]
  /\ UNCHANGED <<cl, cs, conn, cfg, kv, zsets, wr, ret, rng, rd>>

-----------------------------------------------------------------------------
(* scan and count                                                          *)

\* the limit argument of scan: omitted (the default 100 applies), a number
\* that is no integer, or the integer n
LimitArg(given, isInteger, n) ==
  [given |-> given, isInteger |-> isInteger, n |-> n]

\* limit = 100 when the argument is undefined
LimitOf(l) == IF l.given THEN l ELSE LimitArg(TRUE, TRUE, 100)

\* the check gone wrong: 1001 passes
LimitValidUpTo1001(l) == l.isInteger /\ l.n >= 1 /\ l.n <= 1001

\* Number.isInteger(limit) && limit >= 1 && limit <= 1000
LimitValid(l) == l.isInteger /\ l.n >= 1 /\ l.n <= 1000

\* x inserted before the first element of the sorted s that is greater
RECURSIVE JsInsert(_, _)
JsInsert(x, s) ==
  IF s = <<>> THEN <<x>>
  ELSE IF JsLess(x, s[1]) THEN <<x>> \o s
  ELSE <<s[1]>> \o JsInsert(x, Tail(s))

\* allKeys.sort()
RECURSIVE JsSort(_)
JsSort(s) == IF s = <<>> THEN <<>> ELSE JsInsert(s[1], JsSort(Tail(s)))

\* the merge gone wrong: the batch is appended and nothing is sorted
MergeNoSort(allKeys, batchKeys, limit) ==
  IF Len(batchKeys) > 0
    THEN Take(allKeys \o batchKeys, limit)
    ELSE allKeys

\* the merge gone wrong: sorted, and nothing is cut off
MergeNoTruncate(allKeys, batchKeys, limit) ==
  IF Len(batchKeys) > 0
    THEN JsSort(allKeys \o batchKeys)
    ELSE allKeys

\* the merge after one batch of scan: concat, sort, slice(0, limit)
Merge(allKeys, batchKeys, limit) ==
  IF Len(batchKeys) > 0
    THEN Take(JsSort(allKeys \o batchKeys), limit)
    ELSE allKeys

\* the index of the last bucket of the batch that starts after bucket i
BatchEnd(m, i) ==
  IF i + m.SCAN_BATCH_SIZE < Len(m.buckets)
    THEN i + m.SCAN_BATCH_SIZE ELSE Len(m.buckets)

\* the pairing gone wrong: key i with the value of the i-th key from the end
FlattenLastFirst(keys, values) ==
  [j \in 1..(2 * Len(keys)) |->
     IF j % 2 = 1 THEN keys[(j + 1) \div 2]
     ELSE values[Len(keys) + 1 - (j \div 2)]]

\* the pairing gone wrong: a key whose value is missing is left out
RECURSIVE FlattenSkipNull(_, _)
FlattenSkipNull(keys, values) ==
  IF keys = <<>> THEN <<>>
  ELSE (IF values[1] = Null THEN <<>> ELSE <<keys[1], values[1]>>)
         \o FlattenSkipNull(Tail(keys), Tail(values))

\* [key1, val1, key2, val2, ...]
RECURSIVE Flatten(_, _)
Flatten(keys, values) ==
  IF keys = <<>> THEN <<>>
  ELSE <<keys[1], values[1]>> \o Flatten(Tail(keys), Tail(values))

\* MGET keys
RECURSIVE MGet(_, _)
MGet(store, keys) ==
  IF keys = <<>> THEN <<>> ELSE <<store[keys[1]]>> \o MGet(store, Tail(keys))

MaxLost == 2      \* most queries of one scan or count that fail

\* no scan or count in flight.  sent: buckets whose query has been sent;
\* pos: buckets whose reply is in; failed: an error reply was logged; lost:
\* the buckets (their places in this.buckets) whose reply was an error;
\* indexed: the keys that were members of the index when a reply of the
\* call was made (kept to state what a scan beside writers returns);
\* details .. bucketsData: the argument and the locals of getDebugStats
\* (its totalItems is totalCount).
NoRead ==
  [op |-> "none", phase |-> "none", startKey |-> Undefined,
   endKey |-> Undefined, limit |-> LimitArg(FALSE, TRUE, 0), lexStart |-> Undefined,
   lexEnd |-> Undefined, sent |-> 0, pos |-> 0, allKeys |-> <<>>,
   batchKeys |-> <<>>, values |-> <<>>, totalCount |-> 0, failed |-> FALSE,
   status |-> "none", result |-> <<>>, lost |-> {}, indexed |-> {},
   details |-> FALSE, minItems |-> 0, maxItems |-> 0, emptyBuckets |-> 0,
   minBucketSuffix |-> <<>>, maxBucketSuffix |-> <<>>, bucketsData |-> <<>>]

\* a call that threw before it sent anything
Thrown(op, startKey, endKey, limit, error) ==
  [NoRead EXCEPT !.op = op, !.phase = "done", !.startKey = startKey,
                 !.endKey = endKey, !.limit = limit, !.status = error]

\* scan(startKey, endKey, limit) up to the await of its first batch
ScanStart(startKey, endKey, l) ==
  /\ rd.op = "none"
  /\ LET limit == LimitOf(l)
         r == InferRange(startKey, endKey)
     IN  rd' = IF ~LimitValid(limit)
                 THEN Thrown("scan", startKey, endKey, limit, "LimitError")
               ELSE IF ~r.ok
                 THEN Thrown("scan", startKey, endKey, limit, "RangeError")
               ELSE [NoRead EXCEPT !.op = "scan", !.phase = "exec",
                                   !.startKey = startKey, !.endKey = endKey,
                                   !.limit = limit, !.lexStart = r.lexStart,
                                   !.lexEnd = r.lexEnd,
                                   !.sent = BatchEnd(cfg, 0)]
  /\ UNCHANGED <<cl, cs, conn, cfg, env, kv, zsets, wr, ret, rng>>

\* the end of the batches gone wrong: MGET is sent for no key as well
AfterLastBatchAlwaysMget(r) == [r EXCEPT !.phase = "mget"]

\* the state of scan once the replies of all batches are merged: the empty
\* result, or the MGETs sent
AfterLastBatch(r) ==
  IF Len(r.allKeys) = 0
    THEN [r EXCEPT !.phase = "done", !.status = "ok", !.result = <<>>]
    ELSE [r EXCEPT !.phase = "mget"]

\* the server answers the ZRANGEBYLEX of the next bucket, with its members
\* or with an error; when the reply completes the batch, scan merges it and
\* sends the next batch
ScanExec(fail) ==
  /\ rd.op = "scan" /\ rd.phase = "exec"
  /\ fail => (env.faulty /\ Cardinality(rd.lost) < MaxLost)
  /\ LET bucketKey == GetBucketName(cfg.buckets[rd.pos + 1])
         keys == IF fail THEN <<>>
                 ELSE ZRangeByLex(zsets, bucketKey, rd.lexStart, rd.lexEnd, rd.limit.n)
         got == [rd EXCEPT !.pos = rd.pos + 1,
                           !.batchKeys = rd.batchKeys \o keys,
                           !.indexed = rd.indexed \cup {p[2] : p \in zsets},
                           !.failed = rd.failed \/ fail,
                           !.lost = IF fail THEN rd.lost \cup {rd.pos + 1}
                                    ELSE rd.lost]
         merged == [got EXCEPT !.allKeys = Merge(got.allKeys, got.batchKeys, got.limit.n),
                               !.batchKeys = <<>>]
     IN  rd' = IF got.pos < got.sent THEN got
               ELSE IF got.sent < Len(cfg.buckets)
                 THEN [merged EXCEPT !.sent = BatchEnd(cfg, got.sent)]
               ELSE AfterLastBatch(merged)
  /\ UNCHANGED <<cl, cs, conn, cfg, env, kv, zsets, wr, ret, rng>>

\* the MGET gone wrong: the keys it reads are deleted (GETDEL)
ScanMgetConsuming ==
  /\ rd.op = "scan" /\ rd.phase = "mget"
  /\ LET i == Len(rd.values)
         batchKeys == SubSeq(rd.allKeys, i + 1,
                             IF i + cfg.MGET_BATCH_SIZE < Len(rd.allKeys)
                               THEN i + cfg.MGET_BATCH_SIZE ELSE Len(rd.allKeys))
         values == rd.values \o MGet(kv, batchKeys)
     IN  /\ rd' = IF Len(values) < Len(rd.allKeys)
                    THEN [rd EXCEPT !.values = values]
                    ELSE [rd EXCEPT !.values = values, !.phase = "done",
                                    !.status = "ok",
                                    !.result = Flatten(rd.allKeys, values)]
         /\ kv' = [k \in DOMAIN kv |->
                    IF \E j \in 1..Len(batchKeys) : batchKeys[j] = k
                      THEN Null ELSE kv[k]]
  /\ UNCHANGED <<cl, cs, conn, cfg, env, zsets, wr, ret, rng>>

\* the server answers the next MGET; with the last one scan builds its result
ScanMget ==
  /\ rd.op = "scan" /\ rd.phase = "mget"
  /\ LET i == Len(rd.values)
         batchKeys == SubSeq(rd.allKeys, i + 1,
                             IF i + cfg.MGET_BATCH_SIZE < Len(rd.allKeys)
                               THEN i + cfg.MGET_BATCH_SIZE ELSE Len(rd.allKeys))
         values == rd.values \o MGet(kv, batchKeys)
     IN  rd' = IF Len(values) < Len(rd.allKeys)
                 THEN [rd EXCEPT !.values = values]
                 ELSE [rd EXCEPT !.values = values, !.phase = "done",
                                 !.status = "ok",
                                 !.result = Flatten(rd.allKeys, values)]
  /\ UNCHANGED <<cl, cs, conn, cfg, env, kv, zsets, wr, ret, rng>>

\* count gone wrong: the pipeline of the first batch only is sent and
\* awaited
CountStartOneBatch(startKey, endKey) ==
  /\ rd.op = "none"
  /\ LET r == InferRange(startKey, endKey)
     IN  rd' = IF ~r.ok
                 THEN Thrown("count", startKey, endKey, NoRead.limit, "RangeError")
                 ELSE [NoRead EXCEPT !.op = "count", !.phase = "exec",
                                     !.startKey = startKey, !.endKey = endKey,
                                     !.lexStart = r.lexStart,
                                     !.lexEnd = r.lexEnd,
                                     !.sent = BatchEnd(cfg, 0)]
  /\ UNCHANGED <<cl, cs, conn, cfg, env, kv, zsets, wr, ret, rng>>

\* count(startKey, endKey) up to its await: the pipelines of all batches
\* are sent at once
CountStart(startKey, endKey) ==
  /\ rd.op = "none"
  /\ LET r == InferRange(startKey, endKey)
     IN  rd' = IF ~r.ok
                 THEN Thrown("count", startKey, endKey, NoRead.limit, "RangeError")
                 ELSE [NoRead EXCEPT !.op = "count", !.phase = "exec",
                                     !.startKey = startKey, !.endKey = endKey,
                                     !.lexStart = r.lexStart,
                                     !.lexEnd = r.lexEnd,
                                     !.sent = Len(cfg.buckets)]
  /\ UNCHANGED <<cl, cs, conn, cfg, env, kv, zsets, wr, ret, rng>>

\* the server answers the ZLEXCOUNT of the next bucket; totalCount is the
\* sum count takes over the replies, kept as they come in
CountExec(fail) ==
  /\ rd.op = "count" /\ rd.phase = "exec"
  /\ fail => (env.faulty /\ Cardinality(rd.lost) < MaxLost)
  /\ LET bucketKey == GetBucketName(cfg.buckets[rd.pos + 1])
         n == IF fail THEN 0
              ELSE ZLexCount(zsets, bucketKey, rd.lexStart, rd.lexEnd)
         got == [rd EXCEPT !.pos = rd.pos + 1,
                           !.totalCount = rd.totalCount + n,
                           !.failed = rd.failed \/ fail,
                           !.lost = IF fail THEN rd.lost \cup {rd.pos + 1}
                                    ELSE rd.lost]
     IN  rd' = IF got.pos < got.sent THEN got
               ELSE [got EXCEPT !.phase = "done", !.status = "ok"]
  /\ UNCHANGED <<cl, cs, conn, cfg, env, kv, zsets, wr, ret, rng>>

\* Number.MAX_SAFE_INTEGER is 2^53 - 1; it is only compared with the sizes
\* of buckets, and stands here as the largest integer of the checker
MAX_SAFE_INTEGER == 2147483647

\* ZCARD gone wrong: 1 for a bucket that has members
ZCardAtMostOne(zs, bucketKey) ==
  IF \E p \in zs : p[1] = bucketKey THEN 1 ELSE 0

\* ZCARD bucketKey
ZCard(zs, bucketKey) == Cardinality({p \in zs : p[1] = bucketKey})

\* getDebugStats(details) up to its await: one pipeline with the ZCARD of
\* every bucket
StatsStart(details) ==
  /\ rd.op = "none"
  /\ rd' = [NoRead EXCEPT !.op = "stats", !.phase = "exec",
                          !.details = details,
                          !.minItems = MAX_SAFE_INTEGER,
                          !.sent = Len(cfg.buckets)]
  /\ UNCHANGED <<cl, cs, conn, cfg, env, kv, zsets, wr, ret, rng>>

\* the server answers the ZCARD of the next bucket, with its size or with
\* an error; the locals of getDebugStats are kept as its loop over the
\* replies leaves them, and with the last reply the minimum of an index
\* with no item is reset to 0.  (avgItems, a quotient of totalItems, is
\* left out.)
StatsExec(fail) ==
  /\ rd.op = "stats" /\ rd.phase = "exec"
  /\ fail => (env.faulty /\ Cardinality(rd.lost) < MaxLost)
  /\ LET suffix == cfg.buckets[rd.pos + 1]
         size == ZCard(zsets, GetBucketName(suffix))
         got == IF fail
                  THEN [rd EXCEPT !.pos = rd.pos + 1, !.failed = TRUE,
                                  !.lost = rd.lost \cup {rd.pos + 1}]
                  ELSE [rd EXCEPT
                          !.pos = rd.pos + 1,
                          !.totalCount = rd.totalCount + size,
                          !.emptyBuckets = IF size = 0 THEN rd.emptyBuckets + 1
                                           ELSE rd.emptyBuckets,
                          !.minItems = IF size < rd.minItems THEN size
                                       ELSE rd.minItems,
                          !.minBucketSuffix = IF size < rd.minItems THEN suffix
                                              ELSE rd.minBucketSuffix,
                          !.maxItems = IF size > rd.maxItems THEN size
                                       ELSE rd.maxItems,
                          !.maxBucketSuffix = IF size > rd.maxItems THEN suffix
                                              ELSE rd.maxBucketSuffix,
                          !.bucketsData = IF rd.details
                                            THEN Append(rd.bucketsData, <<suffix, size>>)
                                            ELSE rd.bucketsData]
     IN  rd' = IF got.pos < got.sent THEN got
               ELSE [got EXCEPT !.phase = "done", !.status = "ok",
                                !.minItems = IF got.totalCount = 0 THEN 0
                                             ELSE got.minItems]
  /\ UNCHANGED <<cl, cs, conn, cfg, env, kv, zsets, wr, ret, rng>>

\* the caller has the result (or the exception) of its scan, count or
\* getDebugStats
ReadReturn ==
  /\ rd.phase = "done"
  /\ rd' = NoRead
  /\ UNCHANGED <<cl, cs, conn, cfg, env, kv, zsets, wr, ret, rng>>

\* what count returns when nothing fails and nothing is written meanwhile:
\* the sum of the ZLEXCOUNT replies of the buckets lo..hi (the sum is taken
\* by halves: a chain over 256 buckets is deeper than the evaluator's stack)
RECURSIVE CountFrom(_, _, _, _, _, _)
CountFrom(m, zs, lexStart, lexEnd, lo, hi) ==
  IF lo > hi THEN 0
  ELSE IF lo = hi
    THEN ZLexCount(zs, GetBucketName(m.buckets[lo]), lexStart, lexEnd)
  ELSE CountFrom(m, zs, lexStart, lexEnd, lo, (lo + hi) \div 2)
         + CountFrom(m, zs, lexStart, lexEnd, (lo + hi) \div 2 + 1, hi)

CountResult(m, zs, startKey, endKey) ==
  CountFrom(m, zs, InferRange(startKey, endKey).lexStart,
            InferRange(startKey, endKey).lexEnd, 1, Len(m.buckets))

-----------------------------------------------------------------------------
(* cleanupData: streaming deletion by pages                                *)

PAGE_LIMIT == 2   \* the limit of a page; 500 in the code, scaled to the keys

MAX_LOOPS == 1000

\* cleanupData is not running.  pages: the keys of each page scan returned;
\* initial: the keys of the prefix that were indexed when it was called
\* (both kept to state what the pages cover).
NoCleanup ==
  [phase |-> "none", dataPrefix |-> Undefined, lastKey |-> Undefined,
   nextStartKey |-> Undefined, loopCount |-> 0, totalDeleted |-> 0,
   remainingCount |-> 0, pages |-> <<>>, initial |-> {}]

\* cleanupData(manager, dataPrefix) up to its first scan
CleanupStart(dataPrefix) ==
  /\ cl.phase = "none" /\ rd.op = "none" /\ wr[1].op = "none"
  /\ cl' = [NoCleanup EXCEPT
              !.phase = "scan", !.dataPrefix = dataPrefix, !.loopCount = 1,
              !.initial = {p[2] : p \in {q \in zsets : IsPrefix(dataPrefix, q[2])}}]
  /\ UNCHANGED <<cfg, env, kv, zsets, wr, ret, rng, rd, cs, conn>>

\* startKey of the next page: dataPrefix, or lastKey + "\x00"
CleanupStartKey ==
  IF cl.lastKey = Undefined THEN cl.dataPrefix ELSE cl.lastKey \o <<0>>

\* scan has returned a page: none left, or a del(key) for each key of the
\* page, all sent before any is awaited (each is one request on a single
\* node whose client has the scripts)
CleanupPage ==
  /\ cl.phase = "scan" /\ rd.op = "scan" /\ rd.phase = "done"
  /\ rd' = NoRead
  /\ LET batchData == rd.result
         batchKeysToDelete ==
           [j \in 1..(Len(batchData) \div 2) |-> batchData[2 * j - 1]]
         requests ==
           [j \in 1..Len(batchKeysToDelete) |->
              DelRequests(cfg, <<batchKeysToDelete[j]>>).todo[1]]
     IN  IF rd.status # "ok"
           THEN cl' = [cl EXCEPT !.phase = "error"] /\ wr' = wr
         ELSE IF Len(batchData) = 0
           THEN cl' = [cl EXCEPT !.phase = "count"] /\ wr' = wr
         ELSE /\ cl' = [cl EXCEPT
                          !.phase = "del",
                          !.nextStartKey = batchData[Len(batchData) - 1],
                          !.pages = Append(cl.pages, batchKeysToDelete)]
              /\ wr' = [wr EXCEPT ![1] =
                          [Idle EXCEPT !.op = "cleanup",
                                       !.keys = batchKeysToDelete,
                                       !.todo = requests, !.ordered = FALSE]]
  /\ UNCHANGED <<cfg, env, kv, zsets, ret, rng, cs, conn>>

\* every del of the page has returned: the next page, or the end of the
\* loop after a short page or MAX_LOOPS pages
CleanupDeleted ==
  /\ cl.phase = "del" /\ wr[1].op = "cleanup" /\ wr[1].todo = <<>>
  /\ wr' = [wr EXCEPT ![1] = Idle]
  /\ LET n == Len(wr[1].keys)
         done == [cl EXCEPT !.lastKey = cl.nextStartKey,
                            !.totalDeleted = cl.totalDeleted + n]
     IN  cl' = IF 2 * n < 2 * PAGE_LIMIT \/ ~(cl.loopCount < MAX_LOOPS)
                 THEN [done EXCEPT !.phase = "count"]
                 ELSE [done EXCEPT !.phase = "scan",
                                   !.loopCount = cl.loopCount + 1]
  /\ UNCHANGED <<cfg, env, kv, zsets, ret, rng, rd, cs, conn>>

\* count(dataPrefix) has returned: remainingCount
CleanupVerify ==
  /\ cl.phase = "count" /\ rd.op = "count" /\ rd.phase = "done"
  /\ rd' = NoRead
  /\ cl' = [cl EXCEPT !.phase = IF rd.status = "ok" THEN "done" ELSE "error",
                      !.remainingCount = rd.totalCount]
  /\ UNCHANGED <<cfg, env, kv, zsets, wr, ret, rng, cs, conn>>

-----------------------------------------------------------------------------
(* The cache consumer                                                      *)

FETCH_BATCH_SIZE == 2   \* members of a page; 1000 in the code, scaled

CACHE_DURATION == 1     \* 11000 ms in the code, in ticks of the model's clock

MaxMembers == 2         \* members the producer writes

MaxTime == 2            \* last tick of the clock

MaxTries == 2           \* the count of the times a member is processed in
                        \* one execution stops here

Execs == {1, 2}         \* executions of consumeData that could run at once

\* the test has not started: no timer, an empty queue, no execution of
\* consumeData in any slot.  tries[m]: the times m was handed to
\* processData in the execution (kept to state that it is processed once).
NoConsumer ==
  [started |-> FALSE, consumerTimer |-> FALSE, isCleanup |-> FALSE,
   purged |-> FALSE, now |-> 0, dataCounter |-> 0, queue |-> {},
   run |-> [e \in Execs |->
             [phase |-> "idle", cutoffTime |-> 0, dataList |-> <<>>,
              success |-> <<>>, failed |-> <<>>,
              tries |-> [m \in 1..MaxMembers |-> 0]]]]

\* the clock of Date.now() moves on
TimePasses ==
  /\ cs.started /\ cs.now < MaxTime
  /\ cs' = [cs EXCEPT !.now = cs.now + 1]
  /\ UNCHANGED <<cfg, env, kv, zsets, wr, ret, rng, rd, cl, conn>>

\* the producer's interval: a new member with the time as its score (a
\* batch of 100 in the code, of one here)
Produce ==
  /\ cs.started /\ ~cs.isCleanup /\ cs.dataCounter < MaxMembers
  /\ cs' = [cs EXCEPT !.dataCounter = cs.dataCounter + 1,
                      !.queue = cs.queue \cup {<<cs.now, cs.dataCounter + 1>>}]
  /\ UNCHANGED <<cfg, env, kv, zsets, wr, ret, rng, rd, cl, conn>>

\* consumeData gone wrong: the interval is left running
ConsumeDataKeepsTimer(e) ==
  /\ cs.started /\ cs.consumerTimer /\ cs.run[e].phase = "idle"
  /\ cs' = IF cs.isCleanup THEN cs
           ELSE [cs EXCEPT
                   !.run[e] = [NoConsumer.run[e] EXCEPT
                                 !.phase = "zcard",
                                            !.cutoffTime = cs.now - CACHE_DURATION]]
  /\ UNCHANGED <<cfg, env, kv, zsets, wr, ret, rng, rd, cl, conn>>

\* the interval fires consumeData, which runs up to its first await (the
\* ZCARD): it clears the interval and fixes the cutoff
ConsumeData(e) ==
  /\ cs.started /\ cs.consumerTimer /\ cs.run[e].phase = "idle"
  /\ cs' = IF cs.isCleanup THEN cs
           ELSE [cs EXCEPT
                   !.consumerTimer = FALSE,
                   !.run[e] = [NoConsumer.run[e] EXCEPT
                                 !.phase = "zcard",
                                            !.cutoffTime = cs.now - CACHE_DURATION]]
  /\ UNCHANGED <<cfg, env, kv, zsets, wr, ret, rng, rd, cl, conn>>

\* the members with a score up to max, by score and member, the first n
RECURSIVE ZRangeByScore(_, _, _)
ZRangeByScore(queue, max, n) ==
  LET S == {p \in queue : p[1] <= max}
  IN  IF n = 0 \/ S = {} THEN <<>>
      ELSE LET p == CHOOSE p \in S : \A q \in S :
                      p[1] < q[1] \/ (p[1] = q[1] /\ p[2] <= q[2])
           IN  <<p[2]>> \o ZRangeByScore(queue \ {p}, max, n - 1)

\* the ZCARD, or the ZREM of the page before, is answered and the next page
\* is fetched: ZRANGEBYSCORE -inf cutoffTime LIMIT 0 FETCH_BATCH_SIZE
ConsumeFetch(e) ==
  /\ cs.run[e].phase \in {"zcard", "fetch"}
  /\ cs' = [cs EXCEPT
              !.run[e].phase = "process",
              !.run[e].dataList =
                 ZRangeByScore(cs.queue, cs.run[e].cutoffTime, FETCH_BATCH_SIZE)]
  /\ UNCHANGED <<cfg, env, kv, zsets, wr, ret, rng, rd, cl, conn>>

\* the page is in: the loop ends on an empty one; else processData puts
\* each member into success or failed (ok: those it succeeds on), a ZREM
\* of success is sent if there is one, and else the next page is fetched
ConsumeProcess(e, ok) ==
  /\ cs.run[e].phase = "process"
  /\ LET r == cs.run[e]
         dataList == r.dataList
         \* the members of s that are in S, in the order of s
         RECURSIVE Only(_, _)
         Only(s, S) ==
           IF s = <<>> THEN <<>>
           ELSE (IF s[1] \in S THEN <<s[1]>> ELSE <<>>) \o Only(Tail(s), S)
         success == Only(dataList, ok)
         failed == Only(dataList, (1..MaxMembers) \ ok)
     IN  cs' = IF Len(dataList) = 0
                 THEN [cs EXCEPT !.run[e].phase = "zcardAfter"]
                 ELSE [cs EXCEPT
                         !.run[e].success = success,
                         !.run[e].failed = failed,
                         !.run[e].tries =
                            [m \in 1..MaxMembers |->
                               IF (\E j \in 1..Len(dataList) : dataList[j] = m)
                                    /\ r.tries[m] < MaxTries
                                 THEN r.tries[m] + 1 ELSE r.tries[m]],
                         !.run[e].phase = IF Len(success) > 0 THEN "zrem"
                                          ELSE "fetch"]
  /\ UNCHANGED <<cfg, env, kv, zsets, wr, ret, rng, rd, cl, conn>>

\* the ZREM gone wrong: the whole page is removed
ConsumeZremPage(e) ==
  /\ cs.run[e].phase = "zrem"
  /\ cs' = [cs EXCEPT
              !.queue = {p \in cs.queue :
                           \A j \in 1..Len(cs.run[e].dataList) :
                             cs.run[e].dataList[j] # p[2]},
              !.run[e].phase = "fetch"]
  /\ UNCHANGED <<cfg, env, kv, zsets, wr, ret, rng, rd, cl, conn>>

\* the ZREM gone wrong: nothing is removed
ConsumeZremNothing(e) ==
  /\ cs.run[e].phase = "zrem"
  /\ cs' = [cs EXCEPT !.run[e].phase = "fetch"]
  /\ UNCHANGED <<cfg, env, kv, zsets, wr, ret, rng, rd, cl, conn>>

\* the server runs ZREM QUEUE_KEY ...success
ConsumeZrem(e) ==
  /\ cs.run[e].phase = "zrem"
  /\ cs' = [cs EXCEPT
              !.queue = {p \in cs.queue :
                           \A j \in 1..Len(cs.run[e].success) :
                             cs.run[e].success[j] # p[2]},
              !.run[e].phase = "fetch"]
  /\ UNCHANGED <<cfg, env, kv, zsets, wr, ret, rng, rd, cl, conn>>

\* the last ZCARD is answered: startConsumer() unless a timer is there or
\* cleanup was signalled
ConsumeFinish(e) ==
  /\ cs.run[e].phase = "zcardAfter"
  /\ cs' = [cs EXCEPT
              !.run[e] = NoConsumer.run[e],
              !.consumerTimer = cs.consumerTimer \/ ~cs.isCleanup]
  /\ UNCHANGED <<cfg, env, kv, zsets, wr, ret, rng, rd, cl, conn>>

\* cleanup(): the flags are set and the timers cleared; then, after its
\* ZCARD, what is left of the queue is deleted
ConsumerCleanup ==
  /\ cs.started /\ ~cs.purged
  /\ cs' = IF ~cs.isCleanup
             THEN [cs EXCEPT !.isCleanup = TRUE, !.consumerTimer = FALSE]
             ELSE [cs EXCEPT !.purged = TRUE, !.queue = {}]
  /\ UNCHANGED <<cfg, env, kv, zsets, wr, ret, rng, rd, cl, conn>>

-----------------------------------------------------------------------------
(* A manager built from a configuration                                    *)

\* no manager of this kind.  isCluster: the configuration was an array of
\* nodes; redis: this.redis is set; created: the clients constructed;
\* call[c]: the operation caller c is in and how far it has come ("ensured":
\* past _ensureConnection, "sent": its first store command is sent,
\* "thrown": it threw a TypeError on this.redis)
NoClient ==
  [built |-> FALSE, isCluster |-> FALSE, redis |-> FALSE, created |-> 0,
   call |-> [c \in Callers |-> [op |-> "none", phase |-> "none"]]]

\* caller c calls op, which runs up to its first await: add and del of a
\* cluster manager go to this.redis at once, every other path runs
\* _ensureConnection(), which constructs the client if this.redis is not
\* set, and awaits it
LazyCall(c, op) ==
  /\ conn.built /\ conn.call[c].op = "none"
  /\ LET ensured == IF conn.redis THEN conn
                    ELSE [conn EXCEPT !.redis = TRUE,
                                      !.created = conn.created + 1]
     IN  conn' = IF conn.isCluster /\ op \in {"add", "del"}
                   THEN [conn EXCEPT
                           !.call[c] = [op |-> op,
                                        phase |-> IF conn.redis THEN "sent"
                                                  ELSE "thrown"]]
                   ELSE [ensured EXCEPT
                           !.call[c] = [op |-> op, phase |-> "ensured"]]
  /\ UNCHANGED <<cfg, env, kv, zsets, wr, ret, rng, rd, cl, cs>>

\* the call of caller c goes on after an await: past _ensureConnection it
\* sends its first store command; with the reply, or the TypeError, it
\* returns
LazyResume(c) ==
  /\ conn.call[c].op # "none"
  /\ conn' = IF conn.call[c].phase = "ensured"
               THEN [conn EXCEPT !.call[c].phase = "sent"]
               ELSE [conn EXCEPT !.call[c] = NoClient.call[c]]
  /\ UNCHANGED <<cfg, env, kv, zsets, wr, ret, rng, rd, cl, cs>>

-----------------------------------------------------------------------------
(* Spec: callers of add and del against one manager                        *)

\* "a:2" and "b:1" share the bucket idx:6 when hashChars is 1 and are apart
\* (idx:60, idx:64) when it is 2
WriteKeys == {K2, KB}

RECURSIVE SeqsUpTo(_, _)
SeqsUpTo(S, n) ==
  IF n = 0 THEN {<<>>}
  ELSE SeqsUpTo(S, n - 1) \cup
       {Append(s, x) : s \in {t \in SeqsUpTo(S, n - 1) : Len(t) = n - 1}, x \in S}

\* what each caller passes: caller 1 anything, the others enough to race
\* with it on every key (add of V2, del of one key given as a string)
AddArgs(c) == IF c = 1 THEN WriteKeys \X Values ELSE WriteKeys \X {V2}

DelArgs(c) ==
  {DelArg(TRUE, FALSE, <<k>>) : k \in WriteKeys}
    \cup (IF c = 1
            THEN {DelArg(FALSE, TRUE, ks) : ks \in SeqsUpTo(WriteKeys, MaxDelLen)}
                   \cup {DelArg(FALSE, FALSE, <<>>)}
            ELSE {})

\* a single node with and without scripting, and a cluster
WriteClients ==
  {[isCluster |-> FALSE, defineCommand |-> TRUE],
   [isCluster |-> FALSE, defineCommand |-> FALSE],
   [isCluster |-> TRUE, defineCommand |-> TRUE]}

WriteOptions ==
  [redis : WriteClients, hashChars : {Omitted, HashCharsArg("integer", 1)},
   scanBatchSize : {0},
   mgetBatchSize : {0}]

NoRange == [startKey |-> Undefined, endKey |-> Undefined, called |-> FALSE,
            res |-> [ok |-> FALSE, lexStart |-> Undefined, lexEnd |-> Undefined]]

Init ==
  /\ \E o \in WriteOptions : NewManager(o).ok /\ cfg = NewManager(o)
  /\ env = [callers |-> Callers, faulty |-> FALSE]
  /\ kv = [k \in AllKeys |-> Null]
  /\ zsets = {}
  /\ wr = [c \in Callers |-> Idle]
  /\ ret = [c \in Callers |-> NoRet]
  /\ rng = NoRange
  /\ rd = NoRead
  /\ cl = NoCleanup
  /\ cs = NoConsumer
  /\ conn = NoClient

Next ==
  \/ \E c \in Callers : \E a \in AddArgs(c) : AddStart(c, a[1], a[2])
  \/ \E c \in Callers : \E j \in 1..Len(wr[c].todo) : ServerExec(c, j)
  \/ \E c \in Callers : AddReturn(c)
  \/ \E c \in Callers : \E a \in DelArgs(c) : DelStart(c, a)
  \/ \E c \in Callers : DelNext(c)
  \/ \E c \in Callers : Retire(c)

Spec == Init /\ [][Next]_vars

-----------------------------------------------------------------------------
(* SpecFail: add and del of one caller against a backend that may answer   *)
(* any request with an error                                               *)

FailOptions ==
  [redis : WriteClients, hashChars : {HashCharsArg("integer", 1)},
   scanBatchSize : {0}, mgetBatchSize : {0}]

InitFail ==
  /\ \E o \in FailOptions : cfg = NewManager(o)
  /\ env = [callers |-> {1}, faulty |-> TRUE]
  /\ kv = [k \in AllKeys |-> Null]
  /\ zsets = {}
  /\ wr = [c \in Callers |-> Idle]
  /\ ret = [c \in Callers |-> NoRet]
  /\ rng = NoRange
  /\ rd = NoRead
  /\ cl = NoCleanup
  /\ cs = NoConsumer
  /\ conn = NoClient

NextFail ==
  \/ \E k \in WriteKeys : AddStart(1, k, V1)
  \/ \E j \in 1..Len(wr[1].todo) : ServerExec(1, j)
  \/ \E j \in 1..Len(wr[1].todo) : ServerError(1, j)
  \/ AddReturn(1)
  \/ \E a \in DelArgs(1) : DelStart(1, a)
  \/ DelNext(1)

SpecFail == InitFail /\ [][NextFail]_vars

-----------------------------------------------------------------------------
(* SpecScan: one caller that writes, then reads what is there              *)

\* "a:" U+FF5E and "a:" U+1F600 share the bucket idx:e; "a:1" is in
\* idx:9, "a:2" in idx:6 and "a:" U+20001 in idx:7
ScanKeys == {K1, K2, KX, KY, KZ}

\* "missing_prefix:"
MissingPrefix ==
  <<109, 105, 115, 115, 105, 110, 103, 95, 112, 114, 101, 102, 105, 120, 58>>

ScanStartKeys == {K1, KX, <<97>>, MissingPrefix}

ScanEndKeys == {Undefined, K2, KY}

ScanLimits ==
  {LimitArg(FALSE, TRUE, 0), LimitArg(TRUE, FALSE, 1)}
    \cup {LimitArg(TRUE, TRUE, n) : n \in {0, 1, 2, 10, 1001}}

\* a single node with scripting; 16 buckets, scanned in one batch (the
\* default of 50) or in batches of 5; MGET in one chunk or in chunks of 2
ScanOptions ==
  [redis : {[isCluster |-> FALSE, defineCommand |-> TRUE]},
   hashChars : {HashCharsArg("integer", 1)},
   scanBatchSize : {0, 5}, mgetBatchSize : {0, 2}]

InitScan ==
  /\ \E o \in ScanOptions : NewManager(o).ok /\ cfg = NewManager(o)
  /\ env = [callers |-> {1}, faulty |-> FALSE]
  /\ kv = [k \in AllKeys |-> Null]
  /\ zsets = {}
  /\ wr = [c \in Callers |-> Idle]
  /\ ret = [c \in Callers |-> NoRet]
  /\ rng = NoRange
  /\ rd = NoRead
  /\ cl = NoCleanup
  /\ cs = NoConsumer
  /\ conn = NoClient

\* the caller awaits each call before it makes the next
NextScan ==
  \/ rd.op = "none" /\ \E k \in ScanKeys : AddStart(1, k, V1)
  \/ ServerExec(1, 1)
  \/ AddReturn(1)
  \/ rd.op = "none" /\ \E k \in ScanKeys : DelStart(1, DelArg(TRUE, FALSE, <<k>>))
  \/ DelNext(1)
  \/ wr[1].op = "none" /\ \E s \in ScanStartKeys, e \in ScanEndKeys, l \in ScanLimits :
        ScanStart(s, e, l)
  \/ \E fail \in BOOLEAN : ScanExec(fail)
  \/ ScanMget
  \/ wr[1].op = "none" /\ \E s \in ScanStartKeys, e \in ScanEndKeys :
        CountStart(s, e)
  \/ \E fail \in BOOLEAN : CountExec(fail)
  \/ ReadReturn

SpecScan == InitScan /\ [][NextScan]_vars

-----------------------------------------------------------------------------
(* SpecPartial: one caller that writes, then reads from a backend that may *)
(* answer the query of any partition with an error                         *)

\* "a:" U+FF5E and "a:" U+1F600 share the bucket idx:e; "a:2" is in idx:6
PartialKeys == {K2, KX, KY}

PartialStartKeys == {K1, KX}

PartialEndKeys == {Undefined, KY}

PartialLimits == {LimitArg(FALSE, TRUE, 0), LimitArg(TRUE, TRUE, 1)}

PartialOptions ==
  [redis : {[isCluster |-> FALSE, defineCommand |-> TRUE]},
   hashChars : {HashCharsArg("integer", 1)},
   scanBatchSize : {0, 5}, mgetBatchSize : {0}]

InitPartial ==
  /\ \E o \in PartialOptions : cfg = NewManager(o)
  /\ env = [callers |-> {1}, faulty |-> TRUE]
  /\ kv = [k \in AllKeys |-> Null]
  /\ zsets = {}
  /\ wr = [c \in Callers |-> Idle]
  /\ ret = [c \in Callers |-> NoRet]
  /\ rng = NoRange
  /\ rd = NoRead
  /\ cl = NoCleanup
  /\ cs = NoConsumer
  /\ conn = NoClient

\* the caller awaits each call before it makes the next; the writes are
\* answered, the queries of scan and count may fail
NextPartial ==
  \/ rd.op = "none" /\ \E k \in PartialKeys : AddStart(1, k, V1)
  \/ ServerExec(1, 1)
  \/ AddReturn(1)
  \/ rd.op = "none"
       /\ \E k \in PartialKeys : DelStart(1, DelArg(TRUE, FALSE, <<k>>))
  \/ DelNext(1)
  \/ wr[1].op = "none"
       /\ \E s \in PartialStartKeys, e \in PartialEndKeys, l \in PartialLimits :
            ScanStart(s, e, l)
  \/ \E fail \in BOOLEAN : ScanExec(fail)
  \/ ScanMget
  \/ wr[1].op = "none"
       /\ \E s \in PartialStartKeys, e \in PartialEndKeys : CountStart(s, e)
  \/ \E fail \in BOOLEAN : CountExec(fail)
  \/ ReadReturn

SpecPartial == InitPartial /\ [][NextPartial]_vars

-----------------------------------------------------------------------------
(* SpecRace: a scan beside the add and del calls of a writer               *)

\* "a:" U+FF5E and "a:" U+1F600 share the bucket idx:e; "a:2" is in idx:6
RaceKeys == {K2, KX, KY}

RaceLimits == {LimitArg(FALSE, TRUE, 0), LimitArg(TRUE, TRUE, 1)}

RaceOptions ==
  [redis : {[isCluster |-> FALSE, defineCommand |-> TRUE]},
   hashChars : {HashCharsArg("integer", 1)},
   scanBatchSize : {0, 5}, mgetBatchSize : {0}]

InitRace ==
  /\ \E o \in RaceOptions : cfg = NewManager(o)
  /\ env = [callers |-> {1}, faulty |-> FALSE]
  /\ kv = [k \in AllKeys |-> Null]
  /\ zsets = {}
  /\ wr = [c \in Callers |-> Idle]
  /\ ret = [c \in Callers |-> NoRet]
  /\ rng = NoRange
  /\ rd = NoRead
  /\ cl = NoCleanup
  /\ cs = NoConsumer
  /\ conn = NoClient

\* the writer and the scanner each await their own calls and not each
\* other's: the server runs the requests of both in any order
NextRace ==
  \/ \E k \in RaceKeys : AddStart(1, k, V1)
  \/ ServerExec(1, 1)
  \/ AddReturn(1)
  \/ \E k \in RaceKeys : DelStart(1, DelArg(TRUE, FALSE, <<k>>))
  \/ DelNext(1)
  \/ \E l \in RaceLimits : ScanStart(K1, Undefined, l)
  \/ ScanExec(FALSE)
  \/ ScanMget
  \/ ReadReturn

SpecRace == InitRace /\ [][NextRace]_vars

-----------------------------------------------------------------------------
(* SpecStats: one caller that writes, then reads (scan, count or           *)
(* getDebugStats) from a backend that may answer a query with an error     *)

\* "a:2" and "b:1" share the bucket idx:6 when hashChars is 1 and are apart
\* (idx:60, idx:64) when it is 2; "a:" U+FF5E is in idx:e (idx:e7)
StatsKeys == {K2, KB, KX}

\* the lists del is given: one key, or two (the same twice among them)
StatsDelArgs ==
  {DelArg(FALSE, TRUE, ks) : ks \in SeqsUpTo(StatsKeys, 2)}

StatsOptions ==
  [redis : {[isCluster |-> FALSE, defineCommand |-> TRUE],
            [isCluster |-> FALSE, defineCommand |-> FALSE]},
   hashChars : {Omitted, HashCharsArg("integer", 1)},
   scanBatchSize : {0, 5}, mgetBatchSize : {0}]

\* queries fail on the manager with 16 buckets
InitStats ==
  /\ \E o \in StatsOptions :
       /\ cfg = NewManager(o)
       /\ env = [callers |-> {1}, faulty |-> (o.hashChars.kind = "integer")]
  /\ kv = [k \in AllKeys |-> Null]
  /\ zsets = {}
  /\ wr = [c \in Callers |-> Idle]
  /\ ret = [c \in Callers |-> NoRet]
  /\ rng = NoRange
  /\ rd = NoRead
  /\ cl = NoCleanup
  /\ cs = NoConsumer
  /\ conn = NoClient

\* the caller awaits each call before it makes the next; the writes are
\* answered, the queries of the reads may fail
NextStats ==
  \/ rd.op = "none" /\ \E k \in StatsKeys : AddStart(1, k, V1)
  \/ ServerExec(1, 1)
  \/ AddReturn(1)
  \/ rd.op = "none" /\ \E a \in StatsDelArgs : DelStart(1, a)
  \/ DelNext(1)
  \/ wr[1].op = "none" /\ ScanStart(K1, Undefined, LimitArg(FALSE, TRUE, 0))
  \/ \E fail \in BOOLEAN : ScanExec(fail)
  \/ ScanMget
  \/ wr[1].op = "none" /\ CountStart(K1, Undefined)
  \/ \E fail \in BOOLEAN : CountExec(fail)
  \/ wr[1].op = "none" /\ \E details \in BOOLEAN : StatsStart(details)
  \/ \E fail \in BOOLEAN : StatsExec(fail)
  \/ ReadReturn

SpecStats == InitStats /\ [][NextStats]_vars

-----------------------------------------------------------------------------
(* SpecPairs: one caller that adds keys with one value or another, then    *)
(* scans them with MGET in one chunk or in several                         *)

\* "a:1" < "a:2" < "a:" U+20001, each in a bucket of its own
PairKeys == {K1, K2, KZ}

PairLimits == {LimitArg(FALSE, TRUE, 0), LimitArg(TRUE, TRUE, 2)}

\* MGET in one chunk (the default of 200), in chunks of 1 and of 2
PairOptions ==
  [redis : {[isCluster |-> FALSE, defineCommand |-> TRUE]},
   hashChars : {HashCharsArg("integer", 1)},
   scanBatchSize : {0}, mgetBatchSize : {0, 1, 2}]

InitPairs ==
  /\ \E o \in PairOptions : cfg = NewManager(o)
  /\ env = [callers |-> {1}, faulty |-> FALSE]
  /\ kv = [k \in AllKeys |-> Null]
  /\ zsets = {}
  /\ wr = [c \in Callers |-> Idle]
  /\ ret = [c \in Callers |-> NoRet]
  /\ rng = NoRange
  /\ rd = NoRead
  /\ cl = NoCleanup
  /\ cs = NoConsumer
  /\ conn = NoClient

\* the caller awaits each call before it makes the next
NextPairs ==
  \/ rd.op = "none" /\ \E k \in PairKeys, v \in Values : AddStart(1, k, v)
  \/ ServerExec(1, 1)
  \/ AddReturn(1)
  \/ rd.op = "none" /\ \E k \in PairKeys : DelStart(1, DelArg(TRUE, FALSE, <<k>>))
  \/ DelNext(1)
  \/ wr[1].op = "none" /\ \E l \in PairLimits : ScanStart(K1, Undefined, l)
  \/ ScanExec(FALSE)
  \/ ScanMget
  \/ ReadReturn

SpecPairs == InitPairs /\ [][NextPairs]_vars

-----------------------------------------------------------------------------
(* SpecClean: one caller that adds keys of the prefix "a:", then runs      *)
(* cleanupData on it; no call of another caller runs beside it             *)

InitClean ==
  /\ cfg = NewManager([redis |-> [isCluster |-> FALSE, defineCommand |-> TRUE],
                       hashChars |-> HashCharsArg("integer", 1),
                       scanBatchSize |-> 0, mgetBatchSize |-> 0])
  /\ env = [callers |-> {1}, faulty |-> FALSE]
  /\ kv = [k \in AllKeys |-> Null]
  /\ zsets = {}
  /\ wr = [c \in Callers |-> Idle]
  /\ ret = [c \in Callers |-> NoRet]
  /\ rng = NoRange
  /\ rd = NoRead
  /\ cl = NoCleanup
  /\ cs = NoConsumer
  /\ conn = NoClient

NextClean ==
  \/ cl.phase = "none" /\ \E k \in ScanKeys : AddStart(1, k, V1)
  \/ \E j \in 1..Len(wr[1].todo) : ServerExec(1, j)
  \/ AddReturn(1)
  \/ CleanupStart(<<97, 58>>)
  \/ cl.phase = "scan"
       /\ ScanStart(CleanupStartKey, Undefined, LimitArg(TRUE, TRUE, PAGE_LIMIT))
  \/ ScanExec(FALSE)
  \/ ScanMget
  \/ CleanupPage
  \/ CleanupDeleted
  \/ cl.phase = "count" /\ CountStart(cl.dataPrefix, Undefined)
  \/ CountExec(FALSE)
  \/ CleanupVerify

SpecClean == InitClean /\ [][NextClean]_vars

-----------------------------------------------------------------------------
(* SpecLazy: two callers of a manager built from a configuration, of a     *)
(* single node or of a cluster                                             *)

\* new RedisIndexManager({ redis: config }) with a configuration object or
\* an array of nodes: no client yet
InitLazy ==
  /\ cfg = NoManager([redis |-> [isCluster |-> FALSE, defineCommand |-> TRUE],
                      hashChars |-> Omitted, scanBatchSize |-> 0,
                      mgetBatchSize |-> 0])
  /\ env = [callers |-> {}, faulty |-> FALSE]
  /\ kv = [k \in AllKeys |-> Null]
  /\ zsets = {}
  /\ wr = [c \in Callers |-> Idle]
  /\ ret = [c \in Callers |-> NoRet]
  /\ rng = NoRange
  /\ rd = NoRead
  /\ cl = NoCleanup
  /\ cs = NoConsumer
  /\ \E isArray \in BOOLEAN :
       conn = [NoClient EXCEPT !.built = TRUE, !.isCluster = isArray]

NextLazy ==
  \/ \E c \in Callers :
       \E op \in {"add", "del", "scan", "count", "stats"} : LazyCall(c, op)
  \/ \E c \in Callers : LazyResume(c)

SpecLazy == InitLazy /\ [][NextLazy]_vars

-----------------------------------------------------------------------------
(* SpecConsumer: the producer, the consumer's interval and its executions, *)
(* and the clock; FairConsumer: the same, where no await of an execution   *)
(* waits for ever                                                          *)

\* startProducer(); startConsumer()
InitConsumer ==
  /\ cfg = NoManager([redis |-> [isCluster |-> FALSE, defineCommand |-> TRUE],
                      hashChars |-> Omitted, scanBatchSize |-> 0,
                      mgetBatchSize |-> 0])
  /\ env = [callers |-> {}, faulty |-> FALSE]
  /\ kv = [k \in AllKeys |-> Null]
  /\ zsets = {}
  /\ wr = [c \in Callers |-> Idle]
  /\ ret = [c \in Callers |-> NoRet]
  /\ rng = NoRange
  /\ rd = NoRead
  /\ cl = NoCleanup
  /\ cs = [NoConsumer EXCEPT !.started = TRUE, !.consumerTimer = TRUE]
  /\ conn = NoClient

NextConsumer ==
  \/ TimePasses
  \/ Produce
  \/ \E e \in Execs : ConsumeData(e)
  \/ \E e \in Execs : ConsumeFetch(e)
  \/ \E e \in Execs : \E ok \in SUBSET (1..MaxMembers) : ConsumeProcess(e, ok)
  \/ \E e \in Execs : ConsumeZrem(e)
  \/ \E e \in Execs : ConsumeFinish(e)
  \/ ConsumerCleanup

SpecConsumer == InitConsumer /\ [][NextConsumer]_vars

\* every await of an execution is answered, and processData, which draws
\* Math.random() for each member, does not fail for ever: an execution
\* that processes pages again and again processes one without a failure
FairConsumer ==
  /\ SpecConsumer
  /\ \A e \in Execs :
       /\ WF_vars(ConsumeFetch(e))
       /\ SF_vars(ConsumeProcess(e, 1..MaxMembers))
       /\ WF_vars(ConsumeZrem(e))
       /\ WF_vars(ConsumeFinish(e))

-----------------------------------------------------------------------------
(* SpecNew: the constructor on every hashChars of a bounded universe, and  *)
(* the calls of one caller on the manager it gives                         *)

MaxHashChars == 3

NewOptions ==
  [redis : {[isCluster |-> FALSE, defineCommand |-> TRUE],
            [isCluster |-> TRUE, defineCommand |-> TRUE]},
   hashChars : {Omitted, HashCharsArg("falsy", 0), HashCharsArg("other", 1)}
                 \cup {HashCharsArg("integer", n) : n \in (-1)..MaxHashChars},
   scanBatchSize : {0},
   mgetBatchSize : {0}]

InitNew ==
  /\ \E o \in NewOptions : cfg = NoManager(o)
  /\ env = [callers |-> {1}, faulty |-> FALSE]
  /\ kv = [k \in AllKeys |-> Null]
  /\ zsets = {}
  /\ wr = [c \in Callers |-> Idle]
  /\ ret = [c \in Callers |-> NoRet]
  /\ rng = NoRange
  /\ rd = NoRead
  /\ cl = NoCleanup
  /\ cs = NoConsumer
  /\ conn = NoClient

\* new RedisIndexManager(options)
Construct ==
  /\ ~cfg.called
  /\ cfg' = NewManager(cfg.options)
  /\ UNCHANGED <<cl, cs, conn, env, kv, zsets, wr, ret, rng, rd>>

\* there are calls only on a manager: the constructor returned one
NextNew ==
  \/ Construct
  \/ cfg.ok /\ rd.op = "none" /\ \E k \in WriteKeys : AddStart(1, k, V1)
  \/ \E j \in 1..Len(wr[1].todo) : ServerExec(1, j)
  \/ AddReturn(1)
  \/ cfg.ok /\ rd.op = "none"
       /\ \E k \in WriteKeys : DelStart(1, DelArg(TRUE, FALSE, <<k>>))
  \/ DelNext(1)
  \/ cfg.ok /\ wr[1].op = "none" /\ CountStart(K2, KB)
  \/ CountExec(FALSE)
  \/ ReadReturn

SpecNew == InitNew /\ [][NextNew]_vars

-----------------------------------------------------------------------------
(* SpecLimit: scan with every limit of a bounded universe                  *)

MaxLimitArg == 1002

\* omitted; numbers that are no integers (0.5, 1.5, 1000.5: isInteger is
\* FALSE and n their integer part), which also stand for NaN, null and
\* strings; the integers from -1 to MaxLimitArg
LimitArgs ==
  {LimitArg(FALSE, TRUE, 0)}
    \cup {LimitArg(TRUE, FALSE, n) : n \in {0, 1, 1000}}
    \cup {LimitArg(TRUE, TRUE, n) : n \in (-1)..MaxLimitArg}

InitLimit ==
  /\ cfg = NewManager([redis |-> [isCluster |-> FALSE, defineCommand |-> TRUE],
                       hashChars |-> HashCharsArg("integer", 1),
                       scanBatchSize |-> 0, mgetBatchSize |-> 0])
  /\ env = [callers |-> {1}, faulty |-> FALSE]
  /\ kv = [k \in AllKeys |-> Null]
  /\ zsets = {}
  /\ wr = [c \in Callers |-> Idle]
  /\ ret = [c \in Callers |-> NoRet]
  /\ rng = NoRange
  /\ rd = NoRead
  /\ cl = NoCleanup
  /\ cs = NoConsumer
  /\ conn = NoClient

\* the caller adds "a:1" and scans from it with each limit
NextLimit ==
  \/ rd.op = "none" /\ kv[K1] = Null /\ AddStart(1, K1, V1)
  \/ ServerExec(1, 1)
  \/ AddReturn(1)
  \/ wr[1].op = "none" /\ \E l \in LimitArgs : ScanStart(K1, Undefined, l)
  \/ ScanExec(FALSE)
  \/ ScanMget
  \/ ReadReturn

SpecLimit == InitLimit /\ [][NextLimit]_vars

-----------------------------------------------------------------------------
(* SpecRange: _inferRange on every start key of a bounded universe         *)

MaxStrLen == 3

StartAlphabet == {47, 58, 59, 97}           \* / : ; a

MemberAlphabet == {47, 48, 58, 59, 97, 65374}    \* / 0 : ; a U+FF5E

\* "a#" "a-" "a_" "a#a" "a-;" "a_/" "#a" "-" "_a:"
ExtraStarts ==
  {<<97, 35>>, <<97, 45>>, <<97, 95>>, <<97, 35, 97>>, <<97, 45, 59>>,
   <<97, 95, 47>>, <<35, 97>>, <<45>>, <<95, 97, 58>>}

\* "a#" "a$" "a#a" "a$a" "a-" "a." "a-a" "a_" "a`" "a_a" and the keys with
\* a surrogate pair
ExtraMembers ==
  {<<97, 35>>, <<97, 36>>, <<97, 35, 97>>, <<97, 36, 97>>, <<97, 45>>,
   <<97, 46>>, <<97, 45, 97>>, <<97, 95>>, <<97, 96>>, <<97, 95, 97>>, KY, KZ,
   <<97, 59, 55357, 56832>>, <<97, 47, 55296, 56320>>}

RangeStarts == SeqsUpTo(StartAlphabet, MaxStrLen) \cup ExtraStarts \cup {K1, KX}

RangeEnds == {Undefined, <<>>, K2}

RangeMembers == SeqsUpTo(MemberAlphabet, MaxStrLen) \cup ExtraMembers

InitRange ==
  /\ cfg = NewManager([redis |-> [isCluster |-> FALSE, defineCommand |-> TRUE],
                       hashChars |-> HashCharsArg("integer", 1),
                       scanBatchSize |-> 0, mgetBatchSize |-> 0])
  /\ env = [callers |-> {1}, faulty |-> FALSE]
  /\ kv = [k \in AllKeys |-> Null]
  /\ zsets = {}
  /\ wr = [c \in Callers |-> Idle]
  /\ ret = [c \in Callers |-> NoRet]
  /\ rng \in [startKey : RangeStarts, endKey : RangeEnds, called : {FALSE},
              res : {NoRange.res}]
  /\ rd = NoRead
  /\ cl = NoCleanup
  /\ cs = NoConsumer
  /\ conn = NoClient

\* _inferRange(startKey, endKey)
InferRangeCall ==
  /\ ~rng.called
  /\ rng' = [rng EXCEPT !.called = TRUE,
                        !.res = InferRange(rng.startKey, rng.endKey)]
  /\ UNCHANGED <<cl, cs, conn, cfg, env, kv, zsets, wr, ret, rd>>

NextRange == InferRangeCall

SpecRange == InitRange /\ [][NextRange]_vars

-----------------------------------------------------------------------------
(* Properties of add and del (Spec)                                        *)

\* the partition the routing code of k selects: indexPrefix followed by the
\* first hashChars hex digits of md5(k)
PartitionOf(k) == IndexPrefix \o SubSeq(Md5Hex(k), 1, cfg.hashChars)

Indexed(k) == <<PartitionOf(k), k>> \in zsets

MembershipsOf(k) == {p \in zsets : p[2] = k}

ElementsOf(s) == {s[j] : j \in 1..Len(s)}

\* a single node whose client has the scripts
AtomicPath == ~cfg.isCluster /\ cfg.hasScript

\* c is the only caller left: its call runs with no other call beside it
Solo(c) == env.callers = {c}

\* add of caller c has all its replies
AddDone(c) == wr[c].op = "add" /\ wr[c].todo = <<>>

\* del of caller c has the replies of its last chunk
DelDone(c) ==
  wr[c].op = "del" /\ wr[c].todo = <<>> /\ wr[c].i + BATCH_SIZE >= Len(wr[c].keys)

\* C1: on a single node with the scripts, in every reachable state of every
\* interleaving of the add and del calls of the callers, a key has a value in
\* the string store if and only if it is a member of the partition its
\* routing code selects.
C1_RecordIffIndexed ==
  AtomicPath => \A k \in AllKeys : (kv[k] # Null) <=> Indexed(k)

\* an add and a del of "a:2" in flight together: the add's script has run,
\* the del's has not
C1_Witness ==
  /\ AtomicPath
  /\ wr[1].op = "add" /\ wr[1].keys = <<K2>> /\ wr[1].todo = <<>>
  /\ wr[2].op = "del" /\ wr[2].keys = <<K2>> /\ wr[2].todo # <<>>
  /\ kv[K2] = wr[1].value /\ Indexed(K2)

\* C2: after any sequence of add and del calls under one configuration, a key
\* is a member of at most one partition, and a partition it is a member of is
\* indexPrefix + routingCode(key).
C2_OnePartition ==
  \A k \in AllKeys :
    /\ Cardinality(MembershipsOf(k)) <= 1
    /\ \A p \in MembershipsOf(k) : p[1] = PartitionOf(k)

\* two keys that agree on the first hex digit and differ in the second, each
\* in its own partition of a manager with 256 partitions
C2_Witness ==
  /\ cfg.hashChars = 2
  /\ <<IndexPrefix \o <<54, 48>>, K2>> \in zsets
  /\ <<IndexPrefix \o <<54, 52>>, KB>> \in zsets

\* C3: whatever state precedes the call, once add(k, v) has completed, the
\* string store holds v for k and k is a member of the partition its routing
\* code selects.
C3_AddPostcondition ==
  \A c \in Callers :
    (Solo(c) /\ AddDone(c)) =>
      /\ kv[wr[c].keys[1]] = wr[c].value
      /\ Indexed(wr[c].keys[1])

\* an add of a key that was absent, completed on a cluster (SET and ZADD
\* sent independently)
C3_Witness ==
  /\ Solo(1) /\ AddDone(1) /\ cfg.isCluster
  /\ wr[1].before = Null /\ wr[1].keys = <<KB>> /\ kv[KB] = V1 /\ Indexed(KB)

\* C4: add(k, v1) followed by add(k, v2) leaves exactly one membership of k,
\* in its partition, the value v2 for k, and count(k, k) = 1.
C4_AddTwice ==
  \A c \in Callers :
    (Solo(c) /\ AddDone(c) /\ wr[c].before # Null) =>
      /\ Cardinality(MembershipsOf(wr[c].keys[1])) = 1
      /\ Indexed(wr[c].keys[1])
      /\ kv[wr[c].keys[1]] = wr[c].value
      /\ CountResult(cfg, zsets, wr[c].keys[1], wr[c].keys[1]) = 1

\* the second add of "a:2": it held v1, and now holds v2
C4_Witness ==
  /\ Solo(1) /\ AddDone(1)
  /\ wr[1].keys = <<K2>> /\ wr[1].before = V1 /\ wr[1].value = V2
  /\ kv[K2] = V2

\* C5: whatever state precedes the call (k there or not), once del has
\* completed, the string store holds no value for any key k it was given, k
\* is a member of no partition, and a count over a range that covers k does
\* not count it.
C5_DelPostcondition ==
  \A c \in Callers :
    (Solo(c) /\ DelDone(c)) =>
      \A j \in 1..Len(wr[c].keys) :
        /\ kv[wr[c].keys[j]] = Null
        /\ MembershipsOf(wr[c].keys[j]) = {}
        /\ CountResult(cfg, zsets, wr[c].keys[j], wr[c].keys[j]) = 0

\* del("a:2") completed for a key that was there, with another key left
C5_Witness ==
  /\ Solo(1) /\ DelDone(1)
  /\ wr[1].keys = <<K2>> /\ wr[1].before # Null
  /\ kv[K2] = Null /\ kv[KB] # Null /\ Indexed(KB)

\* C15: del of a single key does what del of the list of that one key does;
\* and once del of a list of any length, longer than one chunk included, has
\* completed, no listed key has a value or a membership.
C15_DelStringOrList ==
  /\ [][\A c \in Callers : \A k \in WriteKeys :
          DelStart(c, DelArg(TRUE, FALSE, <<k>>))
            <=> DelStart(c, DelArg(FALSE, TRUE, <<k>>))]_vars
  /\ [](\A c \in Callers :
          (Solo(c) /\ DelDone(c)) =>
            \A k \in ElementsOf(wr[c].keys) :
              kv[k] = Null /\ MembershipsOf(k) = {})

\* del of a list one key longer than a chunk, on a single node without the
\* scripts: the second chunk has its replies, and nothing is left
C15_Witness ==
  /\ Solo(1) /\ DelDone(1) /\ ~cfg.isCluster /\ ~cfg.hasScript
  /\ Len(wr[1].keys) = BATCH_SIZE + 1 /\ wr[1].i = BATCH_SIZE
  /\ ElementsOf(wr[1].keys) = WriteKeys /\ wr[1].before # Null
  /\ zsets = {}

\* C19: every add on a non-atomic path, because the backend is a cluster or
\* because the client has no scripts, emits the consistency warning and
\* still carries out both effects; an add on the atomic path emits none.
C19_NonAtomicAddWarns ==
  \A c \in Callers :
    wr[c].op = "add" =>
      /\ wr[c].warned <=> ~AtomicPath
      /\ (Solo(c) /\ AddDone(c)) =>
           /\ kv[wr[c].keys[1]] = wr[c].value
           /\ Indexed(wr[c].keys[1])

\* an add on a cluster has carried out SET and ZADD and warned of nothing
C19_Witness ==
  /\ cfg.isCluster /\ Solo(1) /\ AddDone(1) /\ ~wr[1].warned
  /\ wr[1].keys = <<K2>> /\ kv[K2] = wr[1].value /\ Indexed(K2)

\* what holds: the warning is emitted exactly by the fallback of
\* _execAtomic, on a single node whose client has no scripts; on every path
\* a completed add has carried out both effects
C19_FallbackAddWarns ==
  \A c \in Callers :
    wr[c].op = "add" =>
      /\ wr[c].warned <=> (~cfg.isCluster /\ ~cfg.hasScript)
      /\ (Solo(c) /\ AddDone(c)) =>
           /\ kv[wr[c].keys[1]] = wr[c].value
           /\ Indexed(wr[c].keys[1])

\* add(k, v) of caller c and del(k) of caller d were in flight together and
\* both have all their replies
RaceDone(c, d, k) ==
  /\ c # d
  /\ AddDone(c) /\ wr[c].keys = <<k>>
  /\ DelDone(d) /\ wr[d].keys = <<k>>

ValueNotIndexed(k) == kv[k] # Null /\ ~Indexed(k)

IndexedNoValue(k) == kv[k] = Null /\ Indexed(k)

\* C20: with no failure of the backend, an add(k, v) racing with a del(k)
\* can end with the value of k present and k not indexed, or with k indexed
\* and its value absent, on the non-atomic path (cluster, or no scripts) and
\* on no other.
C20_RaceOnlyOffAtomicPath ==
  \A c, d \in Callers : \A k \in AllKeys :
    (RaceDone(c, d, k) /\ (ValueNotIndexed(k) \/ IndexedNoValue(k)))
      => ~AtomicPath

\* an add and a del of "a:2" have raced to a value without membership,
\* after an earlier race left "b:1" a member without value
C20_Witness ==
  /\ ~env.faulty /\ ~AtomicPath
  /\ RaceDone(1, 2, K2)
  /\ ValueNotIndexed(K2)
  /\ IndexedNoValue(KB)

\* C38: add(k, v) and del(keys) change nothing but the records and the
\* memberships of the keys passed to them: a step that changes the value
\* of a key, or a partition with respect to a key, runs a command of a call
\* that was given that key, on the atomic and on the non-atomic path.
C38_OnlyTheKeysPassed ==
  [][LET Ran(x) ==
           \E c \in Callers : /\ wr[c].op \in {"add", "del"}
                              /\ x \in ElementsOf(wr[c].keys)
                              /\ Len(wr'[c].todo) < Len(wr[c].todo)
     IN  /\ \A k \in AllKeys : (kv'[k] # kv[k]) => Ran(k)
         /\ \A p \in (zsets \ zsets') \cup (zsets' \ zsets) : Ran(p[2])]_vars

\* a del of "a:2" has removed it from the partition it shares with "b:1",
\* and "b:1" is a member with its value
C38_Witness ==
  /\ cfg.ok /\ PartitionOf(K2) = PartitionOf(KB)
  /\ \E c \in Callers : /\ wr[c].op = "del" /\ wr[c].keys = <<K2>>
                         /\ wr[c].todo = <<>>
  /\ \A c \in Callers : K2 \in ElementsOf(wr[c].keys) => wr[c].op = "del"
  /\ ~Indexed(K2) /\ kv[K2] = Null
  /\ Indexed(KB) /\ kv[KB] # Null

\* C28: on a cluster add and del never call a script: add sends SET of the
\* key and ZADD to its partition as two commands on their own, del sends a
\* pipeline with DEL and ZREM for each key of the chunk, and every request
\* names one key of the store only.
C28_NoScriptOnCluster ==
  cfg.isCluster =>
    \A c \in Callers :
      /\ \A j \in 1..Len(wr[c].todo) :
           /\ ~IsScript(wr[c].todo[j])
           /\ Len(wr[c].todo[j].keys) = 1
      /\ (wr[c].op = "add" =>
           /\ ~wr[c].ordered
           /\ ElementsOf(wr[c].todo)
                \subseteq {Cmd("SET", wr[c].keys, wr[c].value),
                           Cmd("ZADD", <<PartitionOf(wr[c].keys[1])>>, wr[c].keys[1])})
      /\ (wr[c].op = "del" =>
           /\ wr[c].ordered
           /\ \E n \in 0..(2 * BATCH_SIZE) :
                wr[c].todo = SubSeq(DelPipeline(cfg, Chunk(wr[c].keys, wr[c].i)),
                                    n + 1, 2 * Len(Chunk(wr[c].keys, wr[c].i))))

\* on a cluster an add of "a:2" has its SET and its ZADD in flight beside a
\* del of "a:2" and "b:1" whose pipeline has run its first DEL
C28_Witness ==
  /\ cfg.isCluster
  /\ wr[2].op = "add" /\ Len(wr[2].todo) = 2
  /\ wr[1].op = "del" /\ wr[1].keys = <<K2, KB>> /\ Len(wr[1].todo) = 3
  /\ wr[1].todo[1].t = "ZREM"

-----------------------------------------------------------------------------
(* Properties of add and del under error replies (SpecFail)                *)

\* the keys of the chunks of del sent before the one in flight
EarlierChunks(c) == ElementsOf(SubSeq(wr[c].keys, 1, wr[c].i))

\* what the failure of a request of a chunk of del is claimed to do: the
\* call ends with the error (no later chunk is sent), the store stays as it
\* is (nothing is retried or rolled back), and the keys of the earlier
\* chunks stay removed
ChunkFailureEndsDel(c) ==
  /\ ret'[c] = "error"
  /\ wr'[c].op = "none"
  /\ kv' = kv /\ zsets' = zsets
  /\ \A k \in EarlierChunks(c) : kv[k] = Null /\ MembershipsOf(k) = {}

\* C16: when one chunk of a del fails, the error propagates to the caller,
\* the removals of every earlier chunk stay applied, no later chunk is
\* attempted, and nothing is retried or rolled back.
C16_ChunkFailure ==
  [][\A j \in 1..Len(wr[1].todo) :
       (wr[1].op = "del" /\ ServerError(1, j)) => ChunkFailureEndsDel(1)]_vars

\* del of three keys on a single node without the scripts: a command of
\* the first chunk failed, and the second chunk has been sent
C16_Witness ==
  /\ wr[1].op = "del" /\ wr[1].err /\ ret[1] = NoRet
  /\ Len(wr[1].keys) = BATCH_SIZE + 1 /\ wr[1].i = BATCH_SIZE
  /\ wr[1].todo # <<>>

\* what holds of del where the chunk is a script call
C16_ChunkFailureOfScript ==
  [][\A j \in 1..Len(wr[1].todo) :
       (wr[1].op = "del" /\ IsScript(wr[1].todo[j]) /\ ServerError(1, j))
         => ChunkFailureEndsDel(1)]_vars

\* C18: when the backend fails one of the two effects of an add or a del,
\* the call surfaces the error, on the script path and on the pipeline
\* path alike: no add and no del reports success after one of its requests
\* failed.
C18_ErrorSurfaces ==
  [][(wr[1].op # "none" /\ wr'[1].op = "none" /\ wr[1].err)
       => ret'[1] = "error"]_vars

\* add("a:2") on a single node without the scripts: SET failed, ZADD was
\* done, and the pipeline has resolved
C18_Witness ==
  /\ ~cfg.isCluster /\ ~cfg.hasScript
  /\ wr[1].op = "add" /\ wr[1].keys = <<K2>> /\ wr[1].err /\ wr[1].todo = <<>>
  /\ kv[K2] = Null /\ Indexed(K2)

\* what holds: a failed script call and a failed command of the two add
\* sends on its own on a cluster end the call with the error
C18_ErrorSurfacesOffPipeline ==
  [][\A j \in 1..Len(wr[1].todo) :
       (ServerError(1, j) /\ (IsScript(wr[1].todo[j]) \/ ~wr[1].ordered))
         => ret'[1] = "error"]_vars

\* C26: no operation returns to its caller, or fails towards it, while a
\* request it sent is in flight - also when another request it sent at the
\* same time has failed.
C26_NothingInFlightAtReturn ==
  \A c \in Callers : wr[c].todo # <<>> => ret[c] = NoRet

\* add on a cluster: SET was answered with an error, add has rejected, and
\* its ZADD is in flight
C26_Witness ==
  /\ cfg.isCluster /\ wr[1].op = "add" /\ ret[1] = "error"
  /\ Len(wr[1].todo) = 1 /\ wr[1].todo[1].t = "ZADD"
  /\ ~Indexed(wr[1].keys[1])

\* what holds: a call whose requests are one script call or one pipeline
\* has nothing in flight when it returns or fails
C26_NothingInFlightOffPromiseAll ==
  \A c \in Callers :
    (wr[c].todo # <<>> /\ wr[c].ordered) => ret[c] = NoRet

-----------------------------------------------------------------------------
(* Properties of scan and count (SpecScan)                                 *)

JsLeq(a, b) == a = b \/ JsLess(a, b)

\* startKey begins with a run of alphanumerics followed by one of _ : - / #
HasNamespace(s) ==
  \E n \in 1..(Len(s) - 1) :
    /\ \A i \in 1..n : IsAlnum(s[i])
    /\ s[n + 1] \in {95, 58, 45, 47, 35}

\* that run and the separator
NamespaceOf(s) ==
  LET n == CHOOSE n \in 1..(Len(s) - 1) :
             /\ \A i \in 1..n : IsAlnum(s[i])
             /\ s[n + 1] \in {95, 58, 45, 47, 35}
  IN  SubSeq(s, 1, n + 1)

\* k lies in the range of a call with these arguments, strings compared by
\* Leq: [startKey, endKey], or the keys from startKey on in its namespace
InRangeBy(Leq(_, _), k, startKey, endKey) ==
  /\ Leq(startKey, k)
  /\ IF Falsy(endKey)
       THEN HasNamespace(startKey) /\ IsPrefix(NamespaceOf(startKey), k)
       ELSE Leq(k, endKey)

\* the keys that have a value and lie in the range
PresentInRangeBy(Leq(_, _), startKey, endKey) ==
  {k \in AllKeys : kv[k] # Null /\ InRangeBy(Leq, k, startKey, endKey)}

StrictlyAscendingBy(Less(_, _), s) ==
  \A j \in 1..(Len(s) - 1) : Less(s[j], s[j + 1])

\* the keys of [key1, val1, key2, val2, ...]
KeysOf(result) == [j \in 1..(Len(result) \div 2) |-> result[2 * j - 1]]

\* the first n of the set S in the order Less
RECURSIVE FirstBy(_, _, _)
FirstBy(Less(_, _), S, n) ==
  IF n = 0 \/ S = {} THEN {}
  ELSE LET x == CHOOSE x \in S : \A y \in S : x = y \/ Less(x, y)
       IN  {x} \cup FirstBy(Less, S \ {x}, n - 1)

ScanDone == rd.op = "scan" /\ rd.phase = "done" /\ rd.status = "ok"

CountDone == rd.op = "count" /\ rd.phase = "done" /\ rd.status = "ok"

\* C6: for any range and any valid limit, scan returns at most limit pairs,
\* its keys are strictly ascending, and each of them lies within
\* [startKey, endKey] - in the order of the store (bytes) or in the order of
\* the caller's strings (code units), either one taken for both.
C6_ScanAscendingInRange ==
  ScanDone =>
    /\ Len(rd.result) = 2 * Len(rd.allKeys)
    /\ Len(rd.allKeys) <= rd.limit.n
    /\ \/ /\ StrictlyAscendingBy(BytesLess, KeysOf(rd.result))
          /\ \A k \in ElementsOf(KeysOf(rd.result)) :
               InRangeBy(BytesLeq, k, rd.startKey, rd.endKey)
       \/ /\ StrictlyAscendingBy(JsLess, KeysOf(rd.result))
          /\ \A k \in ElementsOf(KeysOf(rd.result)) :
               InRangeBy(JsLeq, k, rd.startKey, rd.endKey)

\* scan("a:" U+FF5E, "a:" U+1F600) has returned the two bounds, the upper
\* one first
C6_Witness ==
  /\ ScanDone /\ ~rd.failed
  /\ rd.startKey = KX /\ rd.endKey = KY
  /\ KeysOf(rd.result) = <<KY, KX>>

\* what holds of every result: at most limit pairs, no key twice, ascending
\* in code units, within the range in bytes
C6_AscendingInUnitsInRangeInBytes ==
  ScanDone =>
    /\ Len(rd.result) = 2 * Len(rd.allKeys)
    /\ Len(rd.allKeys) <= rd.limit.n
    /\ StrictlyAscendingBy(JsLess, KeysOf(rd.result))
    /\ \A k \in ElementsOf(KeysOf(rd.result)) :
         InRangeBy(BytesLeq, k, rd.startKey, rd.endKey)

\* C7: with no partition failure and no concurrent write, scan returns
\* exactly the min(limit, n) smallest of the n keys present in the range,
\* for every scanBatchSize and every distribution over the partitions - the
\* smallest in the order of the store or in the order of the caller's sort.
C7_ScanReturnsSmallest ==
  (ScanDone /\ ~rd.failed) =>
    \/ ElementsOf(KeysOf(rd.result)) =
         FirstBy(BytesLess, PresentInRangeBy(BytesLeq, rd.startKey, rd.endKey),
                 rd.limit.n)
    \/ ElementsOf(KeysOf(rd.result)) =
         FirstBy(JsLess, PresentInRangeBy(JsLeq, rd.startKey, rd.endKey),
                 rd.limit.n)

\* scan("a:1", undefined, 1) over the three keys beyond the ASCII ones has
\* returned "a:" U+20001
C7_Witness ==
  /\ ScanDone /\ ~rd.failed
  /\ rd.startKey = K1 /\ Falsy(rd.endKey) /\ rd.limit.n = 1
  /\ kv[KX] # Null /\ kv[KY] # Null /\ kv[KZ] # Null
  /\ KeysOf(rd.result) = <<KZ>>

\* C8: when no partition query fails and no write runs meanwhile, count
\* returns the number of keys present in the range over all partitions, the
\* keys startKey and endKey themselves included when endKey is given.
C8_CountExact ==
  (CountDone /\ ~rd.failed) =>
    rd.totalCount =
      Cardinality(PresentInRangeBy(BytesLeq, rd.startKey, rd.endKey))

\* count("a:1", "a:2") = 2 with both bounds present, in different
\* partitions, and a key beyond the upper bound
C8_Witness ==
  /\ CountDone /\ ~rd.failed
  /\ rd.startKey = K1 /\ rd.endKey = K2
  /\ kv[K1] # Null /\ kv[K2] # Null /\ kv[KX] # Null
  /\ rd.totalCount = 2

\* C10, as the code has it: count without endKey, and scan without endKey
\* and with a valid limit, fail with the range-inference error whenever
\* startKey does not begin with a run of alphanumerics followed by one of
\* _ : - / #, without a query sent; and no query sent by scan or count has an
\* unbounded upper end.
C10_NoInferenceNoQuery ==
  /\ (/\ rd.op \in {"scan", "count"}
      /\ Falsy(rd.endKey)
      /\ ~HasNamespace(rd.startKey)
      /\ (rd.op = "scan" => LimitValid(rd.limit)))
       => /\ rd.phase = "done" /\ rd.status = "RangeError"
          /\ rd.sent = 0 /\ rd.pos = 0
  /\ (rd.sent > 0 => LexItem(rd.lexEnd).kind \in {"incl", "excl"})

\* scan("a", undefined, 2) has thrown the range-inference error
C10_Witness ==
  /\ rd.op = "scan" /\ rd.startKey = <<97>> /\ Falsy(rd.endKey)
  /\ rd.limit = LimitArg(TRUE, TRUE, 2)
  /\ rd.status = "RangeError" /\ rd.sent = 0

\* C10, as stated: scan and count without endKey fail with the
\* range-inference error whenever startKey does not begin with such a run
\* and separator, and no query with an unbounded upper end is sent.
C10_AsStated ==
  /\ (/\ rd.op \in {"scan", "count"}
      /\ Falsy(rd.endKey)
      /\ ~HasNamespace(rd.startKey))
       => /\ rd.phase = "done" /\ rd.status = "RangeError"
          /\ rd.sent = 0 /\ rd.pos = 0
  /\ (rd.sent > 0 => LexItem(rd.lexEnd).kind \in {"incl", "excl"})

\* C11, as the code has it: scan("missing_prefix:", undefined, 10) raises no
\* range-inference error: the start key begins with the run "missing" and
\* the separator "_", the upper bound sent is "(missing`", and the call
\* returns.
C11_MissingPrefixIsInferred ==
  (/\ rd.op = "scan" /\ rd.startKey = MissingPrefix /\ Falsy(rd.endKey)
   /\ rd.limit = LimitArg(TRUE, TRUE, 10))
    => /\ rd.status # "RangeError"
       /\ rd.lexStart = <<91>> \o MissingPrefix
       /\ rd.lexEnd = <<40, 109, 105, 115, 115, 105, 110, 103, 96>>
       /\ rd.sent > 0
       /\ (rd.phase = "done" => rd.status = "ok")

\* scan("missing_prefix:", undefined, 10) has returned, every partition
\* queried
C11_Witness ==
  /\ rd.op = "scan" /\ rd.startKey = MissingPrefix /\ Falsy(rd.endKey)
  /\ rd.limit = LimitArg(TRUE, TRUE, 10)
  /\ rd.phase = "done" /\ rd.status = "ok" /\ rd.pos = Len(cfg.buckets)

\* C11, as stated: scan("missing_prefix:", undefined, 10) raises a
\* range-inference error.
C11_AsStated ==
  (/\ rd.op = "scan" /\ rd.startKey = MissingPrefix /\ Falsy(rd.endKey)
   /\ rd.limit = LimitArg(TRUE, TRUE, 10))
    => rd.phase = "done" /\ rd.status = "RangeError"

-----------------------------------------------------------------------------
(* Properties of scan and count under failed queries (SpecPartial)         *)

\* the place in this.buckets of the partition of k
PlaceOf(k) ==
  CHOOSE i \in 1..Len(cfg.buckets) :
    cfg.buckets[i] = SubSeq(Md5Hex(k), 1, cfg.hashChars)

\* the keys in the range, by Leq, that are members of a partition whose
\* query was answered
AnsweredInRangeBy(Leq(_, _)) ==
  {k \in AllKeys : /\ Indexed(k)
                   /\ PlaceOf(k) \notin rd.lost
                   /\ InRangeBy(Leq, k, rd.startKey, rd.endKey)}

\* a scan or count some of whose queries failed has its result
PartialDone(op) ==
  rd.op = op /\ rd.phase = "done" /\ rd.lost # {}

\* C17: a failed query of a partition never makes scan or count fail: the
\* partition gives scan no key and count 0, and the result of scan is still
\* sorted, within the limit, and made only of keys really in the range in
\* the partitions that answered - sorted and in the range in one order, of
\* the store (bytes) or of the caller's strings (code units).
C17_FailedQueryTolerated ==
  /\ rd.lost # {} => rd.status \in {"none", "ok"}
  /\ PartialDone("count") =>
       rd.totalCount = Cardinality(AnsweredInRangeBy(BytesLeq))
  /\ PartialDone("scan") =>
       /\ Len(rd.result) = 2 * Len(rd.allKeys)
       /\ Len(rd.allKeys) <= rd.limit.n
       /\ \/ /\ StrictlyAscendingBy(BytesLess, KeysOf(rd.result))
             /\ ElementsOf(KeysOf(rd.result)) \subseteq AnsweredInRangeBy(BytesLeq)
          \/ /\ StrictlyAscendingBy(JsLess, KeysOf(rd.result))
             /\ ElementsOf(KeysOf(rd.result)) \subseteq AnsweredInRangeBy(JsLeq)

\* scan("a:" U+FF5E, "a:" U+1F600) with the query of an empty partition
\* failed has returned the two bounds, the upper one first
C17_Witness ==
  /\ PartialDone("scan") /\ rd.status = "ok"
  /\ rd.startKey = KX /\ rd.endKey = KY
  /\ PlaceOf(KX) \notin rd.lost
  /\ KeysOf(rd.result) = <<KY, KX>>

\* what holds: no failed query fails the call; count is the sum over the
\* partitions that answered; the keys of scan are within the limit,
\* ascending in code units, and in the range, in bytes, in the partitions
\* that answered; and a scan whose limit cuts nothing returns all of them
C17_AnsweredPartitionsOnly ==
  /\ rd.lost # {} => rd.status \in {"none", "ok"}
  /\ PartialDone("count") =>
       rd.totalCount = Cardinality(AnsweredInRangeBy(BytesLeq))
  /\ PartialDone("scan") =>
       /\ Len(rd.result) = 2 * Len(rd.allKeys)
       /\ Len(rd.allKeys) <= rd.limit.n
       /\ StrictlyAscendingBy(JsLess, KeysOf(rd.result))
       /\ ElementsOf(KeysOf(rd.result)) \subseteq AnsweredInRangeBy(BytesLeq)
       /\ Cardinality(AnsweredInRangeBy(BytesLeq)) <= rd.limit.n
            => ElementsOf(KeysOf(rd.result)) = AnsweredInRangeBy(BytesLeq)

-----------------------------------------------------------------------------
(* Properties of scan beside writers (SpecRace)                            *)

\* C21: under any interleaving of a running scan with add and del calls on
\* the keys of its range, scan returns at most limit pairs, their keys
\* strictly ascending (as the caller's strings compare) with none twice, and
\* every returned key was a member of the index at some moment of the scan.
C21_ScanBesideWriters ==
  (ScanDone /\ rd.status = "ok") =>
    /\ Len(rd.result) = 2 * Len(rd.allKeys)
    /\ Len(rd.allKeys) <= rd.limit.n
    /\ StrictlyAscendingBy(JsLess, KeysOf(rd.result))
    /\ ElementsOf(KeysOf(rd.result)) \subseteq rd.indexed

\* a scan has returned "a:2", deleted since its partition answered, and
\* not "a:" U+FF5E, added after its partition answered and before the end
C21_Witness ==
  /\ ScanDone /\ rd.status = "ok" /\ rd.limit.n = 100
  /\ KeysOf(rd.result) = <<K2>>
  /\ ~Indexed(K2) /\ Indexed(KX)

\* C36: a key deleted after its partition was queried and before the
\* multi-get runs is still returned, paired with null: the keys of the
\* result are the merged keys of the partition replies, in their order,
\* whatever the multi-get finds; each value is what the store held for the
\* key when its MGET ran, null or not.
C36_MissingValueKeepsKey ==
  /\ [](ScanDone =>
          /\ KeysOf(rd.result) = rd.allKeys
          /\ \A j \in 1..Len(rd.allKeys) :
               /\ rd.result[2 * j] = rd.values[j]
               /\ rd.values[j] \in Values \cup {Null})
  /\ [][(rd.op = "scan" /\ rd.phase = "mget" /\ rd'.op = "scan") =>
          /\ rd'.allKeys = rd.allKeys
          /\ \A j \in 1..Len(rd'.values) :
               rd'.values[j] = IF j <= Len(rd.values) THEN rd.values[j]
                               ELSE kv[rd.allKeys[j]]]_vars

\* a scan has returned two keys, the first with null, deleted since its
\* partition answered, the second with its value
C36_Witness ==
  /\ ScanDone /\ Len(rd.allKeys) = 2
  /\ rd.result[2] = Null /\ rd.result[4] # Null
  /\ rd.result[1] \in rd.indexed

-----------------------------------------------------------------------------
(* Properties of getDebugStats and of the reads (SpecStats)                *)

StatsDone == rd.op = "stats" /\ rd.phase = "done" /\ rd.status = "ok"

\* the sum of the sizes of the entries lo..hi of bucketsData
RECURSIVE SizesFrom(_, _, _)
SizesFrom(data, lo, hi) ==
  IF lo > hi THEN 0
  ELSE IF lo = hi THEN data[lo][2]
  ELSE SizesFrom(data, lo, (lo + hi) \div 2)
         + SizesFrom(data, (lo + hi) \div 2 + 1, hi)

\* what getDebugStats reports as totalItems of the index zs when every
\* bucket answers: the sum of ZCARD over this.buckets
RECURSIVE TotalFrom(_, _, _, _)
TotalFrom(m, zs, lo, hi) ==
  IF lo > hi THEN 0
  ELSE IF lo = hi THEN ZCard(zs, GetBucketName(m.buckets[lo]))
  ELSE TotalFrom(m, zs, lo, (lo + hi) \div 2)
         + TotalFrom(m, zs, (lo + hi) \div 2 + 1, hi)

TotalItems(m, zs) == TotalFrom(m, zs, 1, Len(m.buckets))

\* the keys a request names
KeysNamed(cmd) ==
  CASE cmd.t \in {"ZADD", "ZREM"} -> {cmd.arg}
    [] cmd.t = "mDelIndex" -> {cmd.keys[j] : j \in OddIndexes(cmd.keys)}
    [] OTHER -> {cmd.keys[1]}

\* the new keys a request adds to the index less the present keys it
\* removes from it
NetChange(cmd) ==
  CASE cmd.t \in {"ZADD", "addIndex"} ->
         Cardinality({k \in KeysNamed(cmd) : ~Indexed(k)})
    [] cmd.t \in {"ZREM", "mDelIndex"} ->
         0 - Cardinality({k \in KeysNamed(cmd) : Indexed(k)})
    [] OTHER -> 0

\* C22: with no failed partition, getDebugStats reports as total the
\* number of keys indexed (the sum of the cardinalities of the partitions),
\* its detail has one entry for each partition and sums to the same number;
\* and over the adds and dels the total changes, request by request, by the
\* new keys added less the present keys removed.
C22_StatsTotal ==
  /\ [](StatsDone /\ rd.lost = {} =>
          /\ rd.totalCount = Cardinality({k \in AllKeys : Indexed(k)})
          /\ rd.totalCount = Cardinality(zsets)
          /\ (rd.details =>
               /\ Len(rd.bucketsData) = Len(cfg.buckets)
               /\ \A j \in 1..Len(cfg.buckets) :
                    rd.bucketsData[j][1] = cfg.buckets[j]
               /\ SizesFrom(rd.bucketsData, 1, Len(rd.bucketsData)) = rd.totalCount))
  /\ [][TotalItems(cfg, zsets') - TotalItems(cfg, zsets)
         = IF wr[1].todo # <<>> /\ wr'[1].todo = Tail(wr[1].todo)
             THEN NetChange(wr[1].todo[1]) ELSE 0]_vars

\* getDebugStats(true) of a manager with 256 partitions reports the three
\* keys, one in each of three partitions, after a del of a key that was there
C22_Witness ==
  /\ StatsDone /\ rd.lost = {} /\ rd.details
  /\ Len(cfg.buckets) = 256
  /\ rd.totalCount = 3
  /\ rd.maxItems = 1
  /\ ret[1] = "ok"

\* C23: scan, count and getDebugStats never change the store: no step of
\* theirs (the call, a reply, a failed reply, the return) changes a record
\* or a membership, so after any of them, with or without failed
\* partitions, both are as they were before the call.
C23_ReadsChangeNothing ==
  [][rd' # rd => (kv' = kv /\ zsets' = zsets)]_vars

\* a scan with a failed partition has returned pairs of a store that holds
\* them still
C23_Witness ==
  /\ ScanDone /\ rd.lost # {}
  /\ KeysOf(rd.result) = <<K2, KX>>
  /\ kv[K2] = V1 /\ kv[KX] = V1 /\ Indexed(K2) /\ Indexed(KX)

StatsRunning == rd.op = "stats" /\ rd.phase = "exec"

\* C27: getDebugStats sends its ZCARD queries in batches of at most
\* scanBatchSize partitions, one batch after the other, and never has the
\* queries of all partitions out at once.
C27_StatsInBatches ==
  StatsRunning => rd.sent - rd.pos <= cfg.SCAN_BATCH_SIZE

\* getDebugStats of a manager with 16 partitions and a scanBatchSize of 5 has
\* 16 queries out and no reply
C27_Witness ==
  /\ StatsRunning /\ cfg.SCAN_BATCH_SIZE = 5
  /\ rd.pos = 0 /\ rd.sent = 16

\* what holds: getDebugStats has one query for each partition out from its
\* call on, whatever scanBatchSize is, and each is answered once
C27_StatsAllAtOnce ==
  /\ StatsRunning => (rd.sent = Len(cfg.buckets) /\ rd.pos < rd.sent)
  /\ StatsDone => (rd.sent = Len(cfg.buckets) /\ rd.pos = rd.sent)

\* the places in this.buckets of the partitions whose ZCARD was answered
Answered == (1..Len(cfg.buckets)) \ rd.lost

\* suffix names an answered partition of cardinality n
NamesPartitionOf(suffix, n) ==
  \E j \in Answered :
    /\ cfg.buckets[j] = suffix
    /\ ZCard(zsets, GetBucketName(cfg.buckets[j])) = n

\* the number of answered partitions of cardinality 0
EmptyAnswered ==
  Cardinality({j \in Answered : ZCard(zsets, GetBucketName(cfg.buckets[j])) = 0})

\* C39: stats reports minItems <= maxItems, emptyBuckets equal to the
\* number of answered partitions of cardinality 0, and a minBucket and a
\* maxBucket suffix that each name an enumerated partition whose
\* cardinality is the reported min or max, also when every partition is
\* empty.
C39_StatsExtremes ==
  StatsDone =>
    /\ rd.minItems <= rd.maxItems
    /\ rd.emptyBuckets = EmptyAnswered
    /\ NamesPartitionOf(rd.minBucketSuffix, rd.minItems)
    /\ NamesPartitionOf(rd.maxBucketSuffix, rd.maxItems)

\* stats of an index without a member, every partition answered: the
\* suffix of maxBucket is the empty string
C39_Witness ==
  /\ StatsDone /\ rd.lost = {} /\ zsets = {}
  /\ rd.maxItems = 0 /\ rd.minItems = 0
  /\ rd.emptyBuckets = Len(cfg.buckets)
  /\ rd.maxBucketSuffix = <<>>
  /\ rd.minBucketSuffix = cfg.buckets[1]

\* what holds: the same, where the suffix of maxBucket names a partition
\* only if some answered partition has a member and is the empty string if
\* none has
C39_StatsExtremesUnlessEmpty ==
  StatsDone =>
    /\ rd.minItems <= rd.maxItems
    /\ rd.emptyBuckets = EmptyAnswered
    /\ NamesPartitionOf(rd.minBucketSuffix, rd.minItems)
    /\ \A j \in Answered :
         /\ rd.minItems <= ZCard(zsets, GetBucketName(cfg.buckets[j]))
         /\ ZCard(zsets, GetBucketName(cfg.buckets[j])) <= rd.maxItems
    /\ IF rd.maxItems > 0
         THEN NamesPartitionOf(rd.maxBucketSuffix, rd.maxItems)
         ELSE rd.maxBucketSuffix = <<>> /\ EmptyAnswered = Cardinality(Answered)

-----------------------------------------------------------------------------
(* Properties of the batches of scan and count (SpecScan)                  *)

ScanRunning == rd.op = "scan" /\ rd.phase = "exec"

\* C24: in scan the queries of a batch are not sent until the batch before
\* it has all its replies and is merged; after each batch the accumulator
\* holds at most limit keys, and at no time are more than
\* limit + scanBatchSize * limit keys held.
C24_BatchesInTurn ==
  /\ [](ScanRunning =>
          /\ rd.pos < rd.sent
          /\ rd.sent - rd.pos <= cfg.SCAN_BATCH_SIZE
          /\ rd.sent = BatchEnd(cfg, (rd.pos \div cfg.SCAN_BATCH_SIZE) * cfg.SCAN_BATCH_SIZE)
          /\ Len(rd.allKeys) <= rd.limit.n
          /\ Len(rd.allKeys) + Len(rd.batchKeys)
               <= rd.limit.n + cfg.SCAN_BATCH_SIZE * rd.limit.n)
  /\ []((rd.op = "scan" /\ rd.phase \in {"mget", "done"}) =>
          Len(rd.allKeys) <= rd.limit.n)
  /\ [][(ScanRunning /\ rd'.sent # rd.sent) =>
          /\ rd.pos + 1 = rd.sent
          /\ rd'.pos = rd.sent
          /\ rd'.batchKeys = <<>>
          /\ Len(rd'.allKeys) <= rd.limit.n]_vars

\* scan with limit 1 in batches of 5 buckets: two buckets of the second
\* batch have answered with a key each, and the third batch is not sent
C24_Witness ==
  /\ ScanRunning /\ cfg.SCAN_BATCH_SIZE = 5 /\ rd.limit.n = 1
  /\ rd.sent = 10 /\ rd.pos = 8
  /\ Len(rd.batchKeys) = 2

\* C25: count sends one ZLEXCOUNT for each enumerated partition, and sends
\* them all before it waits for any reply: from the call on the queries of
\* all partitions are out, each is answered once, and count has its result
\* with the reply of the last.
C25_CountAllAtOnce ==
  /\ [](rd.op = "count" /\ rd.phase = "exec" =>
          /\ rd.sent = Len(cfg.buckets)
          /\ rd.pos < rd.sent)
  /\ [](CountDone => (rd.sent = Len(cfg.buckets) /\ rd.pos = rd.sent))
  /\ [][(rd.op = "count" /\ rd.phase = "exec") =>
          (rd'.op = "count" /\ rd'.sent = rd.sent /\ rd'.pos = rd.pos + 1)]_vars

\* count on a manager that scans in batches of 5: no reply is in and the
\* queries of all 16 partitions are out
C25_Witness ==
  /\ rd.op = "count" /\ rd.phase = "exec"
  /\ cfg.SCAN_BATCH_SIZE = 5
  /\ rd.pos = 0 /\ rd.sent = 16

\* C29: when no partition returns a key, scan returns the empty sequence
\* and sends no MGET: an MGET is in flight only for a key that was found.
C29_NoMatchNoMget ==
  /\ [](rd.phase = "mget" => Len(rd.allKeys) > 0)
  /\ []((ScanDone /\ Len(rd.allKeys) = 0) =>
          (rd.result = <<>> /\ rd.values = <<>>))
  /\ [][(ScanRunning /\ rd'.phase # "exec" /\ Len(rd'.allKeys) = 0) =>
          (rd'.phase = "done" /\ rd'.status = "ok" /\ rd'.result = <<>>)]_vars

\* scan("missing_prefix:") has returned [] from a store that holds "a:1"
C29_Witness ==
  /\ ScanDone /\ rd.startKey = MissingPrefix
  /\ rd.result = <<>> /\ rd.values = <<>> /\ rd.pos = Len(cfg.buckets)
  /\ Indexed(K1)

\* C37: with no concurrent write and no failed query, for every startKey,
\* endKey (given or omitted) and valid limit, scan returns
\* min(limit, count(startKey, endKey)) pairs, count returns the sum of the
\* ZLEXCOUNTs over all buckets, and scan and count fail range inference on
\* the same arguments: each throws the RangeError exactly when _inferRange
\* gives no range.
C37_ScanSizeIsCount ==
  LET n == CountResult(cfg, zsets, rd.startKey, rd.endKey)
  IN  /\ ScanDone =>
            Len(rd.result) = 2 * (IF rd.limit.n < n THEN rd.limit.n ELSE n)
      /\ CountDone => rd.totalCount = n
      /\ (rd.op \in {"scan", "count"} /\ rd.phase = "done"
            /\ rd.status # "LimitError") =>
            /\ rd.status \in {"ok", "RangeError"}
            /\ (rd.status = "RangeError")
                  <=> ~InferRange(rd.startKey, rd.endKey).ok

\* a scan of limit 2 has returned two pairs of a range that counts three
C37_Witness ==
  /\ ScanDone /\ rd.limit.n = 2 /\ Len(rd.result) = 4
  /\ CountResult(cfg, zsets, rd.startKey, rd.endKey) = 3
  /\ rd.endKey = Undefined

-----------------------------------------------------------------------------
(* Properties of the pairs of scan (SpecPairs)                             *)

\* C30: every pair scan returns couples key i with the value MGET returned
\* for that key, also when the keys are spread over several MGET chunks;
\* with no writer beside the scan that value is the one the store holds for
\* the key, the one last added.
C30_PairsKeyWithItsValue ==
  ScanDone =>
    /\ Len(rd.result) = 2 * Len(rd.allKeys)
    /\ Len(rd.values) = Len(rd.allKeys)
    /\ \A j \in 1..Len(rd.allKeys) :
         /\ rd.result[2 * j - 1] = rd.allKeys[j]
         /\ rd.result[2 * j] = rd.values[j]
         /\ rd.values[j] = MGet(kv, <<rd.allKeys[j]>>)[1]
         /\ rd.values[j] # Null

\* three keys read back through two MGET chunks (of 2 and of 1 key), each
\* with its own value
C30_Witness ==
  /\ ScanDone /\ cfg.MGET_BATCH_SIZE = 2
  /\ rd.result = <<K1, V2, K2, V1, KZ, V1>>

-----------------------------------------------------------------------------
(* Properties of cleanupData (SpecClean)                                   *)

\* the keys of all pages, one after the other
RECURSIVE PagedKeys(_)
PagedKeys(pages) ==
  IF pages = <<>> THEN <<>> ELSE pages[1] \o PagedKeys(Tail(pages))

NoneTwice(s) == \A i, j \in 1..Len(s) : s[i] = s[j] => i = j

\* C31: streaming deletion by pages, with no writer beside it, ends
\* (each page but the last deletes a key, so within as many pages as there
\* were keys, and one), returns every key of the prefix in exactly one page
\* (none twice, none skipped), and leaves count(prefix) at 0.
C31_StreamingDeletion ==
  /\ cl.phase # "error"
  /\ cl.loopCount <= Cardinality(cl.initial) + 1
  /\ (cl.phase = "done" =>
       /\ NoneTwice(PagedKeys(cl.pages))
       /\ ElementsOf(PagedKeys(cl.pages)) = cl.initial
       /\ cl.remainingCount = 0
       /\ \A k \in cl.initial : kv[k] = Null /\ ~Indexed(k))

\* cleanupData("a:") of "a:1", "a:" U+20001 and "a:" U+FF5E has ended
\* after the page of the first two, with the third still there
C31_Witness ==
  /\ cl.phase = "done" /\ cl.initial = {K1, KZ, KX}
  /\ cl.pages = <<(<<K1, KZ>>)>>
  /\ cl.remainingCount = 1 /\ Indexed(KX)

\* what holds: cleanupData ends, each page but the last deleting a key;
\* no key is in two pages and every key of a page was of the prefix and is
\* deleted; and when the keys compare in code units as they do in bytes,
\* every key of the prefix is in a page and none is left
C31_StreamingDeletionOfPagedKeys ==
  /\ cl.phase # "error"
  /\ cl.loopCount <= Cardinality(cl.initial) + 1
  /\ (cl.phase = "done") =>
       /\ NoneTwice(PagedKeys(cl.pages))
       /\ ElementsOf(PagedKeys(cl.pages)) \subseteq cl.initial
       /\ \A k \in ElementsOf(PagedKeys(cl.pages)) : kv[k] = Null /\ ~Indexed(k)
       /\ cl.remainingCount = Cardinality(cl.initial \ ElementsOf(PagedKeys(cl.pages)))
       /\ (\A a, b \in cl.initial : JsLess(a, b) <=> BytesLess(a, b)) =>
            (ElementsOf(PagedKeys(cl.pages)) = cl.initial /\ cl.remainingCount = 0)

-----------------------------------------------------------------------------
(* Properties of the cache consumer (SpecConsumer, FairConsumer)           *)

\* an execution of consumeData is in flight in slot e
Running(e) == cs.run[e].phase # "idle"

\* m is in the sequence s
InSeq(m, s) == \E j \in 1..Len(s) : s[j] = m

\* C32: at most one execution of consumeData is in flight at any time,
\* however long it runs: while one is in flight the interval timer is
\* cleared (it is cleared before the first await), and the timer is armed
\* again only by the step that ends an execution.
C32_OneExecutionInFlight ==
  /\ [](\A e1, e2 \in Execs : (Running(e1) /\ Running(e2)) => e1 = e2)
  /\ []((\E e \in Execs : Running(e)) => ~cs.consumerTimer)
  /\ [][(~cs.consumerTimer /\ cs'.consumerTimer)
          => (\E e \in Execs : /\ cs.run[e].phase = "zcardAfter"
                                /\ cs'.run[e].phase = "idle")]_vars

\* an execution that has run for longer than the cache duration and is
\* still processing, a member having failed and come back
C32_Witness ==
  \E e \in Execs :
    /\ cs.run[e].phase = "process"
    /\ cs.now > cs.run[e].cutoffTime + CACHE_DURATION
    /\ \E m \in 1..MaxMembers : cs.run[e].tries[m] = 2
    /\ ~cs.isCleanup /\ ~cs.consumerTimer

\* the step is the DEL of the queue by cleanup
PurgeStep == cs.isCleanup /\ ~cs.purged /\ cs'.purged

\* C33: the consumer removes a member from the queue only after it was
\* processed successfully: a member leaves the queue (cleanup's DEL
\* aside) only in the ZREM of an execution whose processData put it into
\* success, and the members put into failed stay in the queue.
C33_RemovedAfterSuccess ==
  /\ [](\A e \in Execs : \A m \in 1..MaxMembers :
          ~(InSeq(m, cs.run[e].success) /\ InSeq(m, cs.run[e].failed)))
  /\ [][~PurgeStep =>
          \A p \in cs.queue :
            /\ (p \notin cs'.queue) =>
                  (\E e \in Execs : /\ cs.run[e].phase = "zrem"
                                     /\ cs'.run[e].phase = "fetch"
                                     /\ InSeq(p[2], cs.run[e].success))
            /\ (\E e \in Execs : /\ cs.run[e].phase = "zrem"
                                  /\ InSeq(p[2], cs.run[e].failed))
                  => p \in cs'.queue]_vars

\* a page of one success and one failure was processed and the ZREM done:
\* the failed member is in the queue and the other is not
C33_Witness ==
  \E e \in Execs :
    /\ cs.run[e].phase = "fetch"
    /\ Len(cs.run[e].success) = 1 /\ Len(cs.run[e].failed) = 1
    /\ \E p \in cs.queue : p[2] = cs.run[e].failed[1]
    /\ \A p \in cs.queue : p[2] # cs.run[e].success[1]
    /\ ~cs.isCleanup

\* C34: within one execution each queue member is processed only once (a
\* member whose processing failed waits for the next execution).
C34_ProcessedOnce ==
  \A e \in Execs : \A m \in 1..MaxMembers : cs.run[e].tries[m] <= 1

\* a member failed in the first page of an execution and is in the second
\* page of the same execution
C34_Witness ==
  \E e \in Execs :
    /\ cs.run[e].phase = "process"
    /\ \E m \in 1..MaxMembers :
         /\ cs.run[e].tries[m] = 1
         /\ InSeq(m, cs.run[e].failed)
         /\ InSeq(m, cs.run[e].dataList)

-----------------------------------------------------------------------------
(* Properties of a manager built from a configuration (SpecLazy)           *)

\* C40: the client is created exactly once per manager, before the first
\* store command of whichever operation runs first, on single-node and on
\* cluster configurations alike, also when the first calls run
\* concurrently: never two clients, and a call that has come to its first
\* store command has the one client.
C40_ClientOnceBeforeFirstCommand ==
  /\ conn.created <= 1
  /\ \A c \in Callers :
       conn.call[c].phase \in {"sent", "thrown"} =>
         (conn.redis /\ conn.created = 1)

\* add is the first call on a manager built from an array of nodes: it has
\* come to this.redis.set and there is no client
C40_Witness ==
  /\ conn.built /\ conn.isCluster
  /\ conn.call[1] = [op |-> "add", phase |-> "thrown"]
  /\ conn.call[2].op = "none"
  /\ ~conn.redis /\ conn.created = 0

\* what holds: never two clients; every call but add and del of a cluster
\* manager has the one client before its first store command, also with
\* two first calls at once; add and del of a cluster manager have it only
\* if another operation ran before, and throw if not
C40_ClientOnceButClusterWrites ==
  /\ conn.created <= 1
  /\ conn.redis <=> conn.created = 1
  /\ \A c \in Callers :
       /\ conn.call[c].phase \in {"ensured", "sent"} =>
            (conn.redis /\ conn.created = 1)
       /\ conn.call[c].phase = "thrown" =>
            (conn.isCluster /\ conn.call[c].op \in {"add", "del"})
       /\ (conn.call[c].op # "none"
             /\ ~(conn.isCluster /\ conn.call[c].op \in {"add", "del"})) =>
            conn.call[c].phase \in {"ensured", "sent"}

-----------------------------------------------------------------------------
(* Properties of scan's limit (SpecLimit)                                  *)

\* C12: scan rejects with the limit error, before it sends anything, every
\* limit that is not an integer from 1 to 1000 (0 and 1001 among them), and
\* accepts every integer limit from 1 to 1000.
C12_LimitValidated ==
  rd.op = "scan" =>
    IF rd.limit.isInteger /\ rd.limit.n \in 1..1000
      THEN /\ rd.status # "LimitError"
           /\ rd.sent > 0
           /\ (rd.phase = "done" => rd.status = "ok")
      ELSE /\ rd.phase = "done" /\ rd.status = "LimitError"
           /\ rd.sent = 0 /\ rd.pos = 0

\* scan("a:1", undefined, 1000) has returned the key that is there
C12_Witness ==
  /\ ScanDone /\ rd.limit = LimitArg(TRUE, TRUE, 1000)
  /\ KeysOf(rd.result) = <<K1>>

-----------------------------------------------------------------------------
(* Properties of _inferRange (SpecRange)                                   *)

\* C9: when endKey is omitted and startKey begins with a run of
\* alphanumerics followed by one separator (the prefix p), the range that
\* scan and count send covers exactly the keys k >= startKey that begin with
\* p, whatever follows p in k.
C9_InferredRangeIsNamespace ==
  (rng.called /\ Falsy(rng.endKey) /\ HasNamespace(rng.startKey)) =>
    /\ rng.res.ok
    /\ \A m \in RangeMembers :
         InLexRange(m, rng.res.lexStart, rng.res.lexEnd)
           <=> /\ BytesLeq(rng.startKey, m)
               /\ IsPrefix(NamespaceOf(rng.startKey), m)

\* the range inferred from "a:1" holds "a:" U+1F600 and not "a;"
C9_Witness ==
  /\ rng.called /\ rng.startKey = K1 /\ Falsy(rng.endKey) /\ rng.res.ok
  /\ InLexRange(KY, rng.res.lexStart, rng.res.lexEnd)
  /\ ~InLexRange(<<97, 59>>, rng.res.lexStart, rng.res.lexEnd)

-----------------------------------------------------------------------------
(* Properties of the constructor (SpecNew)                                 *)

\* C13: the constructor fails for every hashChars that is supplied and is
\* not 1 or 2; only 1 and 2 give a manager.
C13_OnlyOneOrTwo ==
  (/\ cfg.called
   /\ cfg.options.hashChars.kind # "omitted"
   /\ ~(cfg.options.hashChars.kind = "integer"
         /\ cfg.options.hashChars.n \in {1, 2}))
    => ~cfg.ok

\* new RedisIndexManager({redis, hashChars: 0}) has returned a manager with
\* 256 partitions
C13_Witness ==
  /\ cfg.called /\ cfg.options.hashChars = HashCharsArg("integer", 0)
  /\ cfg.ok /\ cfg.hashChars = 2 /\ Len(cfg.buckets) = 256

\* what holds of every manager: its hashChars is 1 or 2, and a truthy
\* hashChars other than 1 and 2 gives none
C13_TruthyOnlyOneOrTwo ==
  /\ cfg.ok => cfg.hashChars \in {1, 2}
  /\ (/\ cfg.called
      /\ \/ cfg.options.hashChars.kind = "other"
         \/ /\ cfg.options.hashChars.kind = "integer"
            /\ cfg.options.hashChars.n \notin {0, 1, 2})
       => ~cfg.ok

\* the request names the partition of its key
RoutedByCode(cmd) ==
  CASE cmd.t \in {"ZADD", "ZREM"} -> cmd.keys[1] = PartitionOf(cmd.arg)
    [] cmd.t = "addIndex" -> cmd.keys[2] = PartitionOf(cmd.keys[1])
    [] cmd.t = "mDelIndex" ->
         \A j \in 1..Len(cmd.keys) :
           j % 2 = 1 => cmd.keys[j + 1] = PartitionOf(cmd.keys[j])
    [] OTHER -> TRUE

\* C14: the routing code of a key is the same on every call; the manager
\* enumerates exactly 16^hashChars distinct partition identifiers at
\* construction, the routing code of every key names one of them, and no
\* operation changes the enumeration (or anything else of the
\* configuration) afterwards.
C14_Enumeration ==
  /\ [](cfg.ok =>
         /\ Len(cfg.buckets) = 16 ^ cfg.hashChars
         /\ Cardinality(ElementsOf(cfg.buckets)) = Len(cfg.buckets)
         /\ \A k \in AllKeys :
              SubSeq(Md5Hex(k), 1, cfg.hashChars) \in ElementsOf(cfg.buckets)
         /\ \A j \in 1..Len(wr[1].todo) : RoutedByCode(wr[1].todo[j])
         /\ \A p \in zsets : p[1] = PartitionOf(p[2]))
  /\ [][cfg.called => cfg' = cfg]_vars

\* a manager with 256 partitions: "a:2" was added and is being deleted
C14_Witness ==
  /\ cfg.ok /\ cfg.hashChars = 2 /\ Len(cfg.buckets) = 256
  /\ wr[1].op = "del" /\ wr[1].keys = <<K2>> /\ wr[1].todo # <<>>
  /\ Indexed(K2)

====
